---------------------------- MODULE Spec2Model ----------------------------
(***************************************************************************)
(* Model of the meeting-minutes extraction scripts:                        *)
(*   py/old/extract_voting_record_csv.py  (script "csv")                   *)
(*   py/old/scan_trustees_votes.py        (script "scan")                  *)
(*   py/process_meeting_minutes.py        (script "pmm")                   *)
(* Strings of the program are sequences of one-character strings, so that  *)
(* lower(), strip(), zfill(), slicing, sorting and the regular expressions *)
(* are computed character by character as Python computes them.            *)
(***************************************************************************)
EXTENDS Integers, Sequences, FiniteSets, TLC

VARIABLES
    script,       \* which script runs: "csv", "scan", "pmm", "dl"
    pc,           \* position of the run / of the function under check
    filename,     \* argument of date_from_filename
    date_hint,    \* result of date_from_filename
    dir_exists,   \* DOCS_DIR.exists()
    dir,          \* the names DOCS_DIR.iterdir() lists
    include_all,  \* "--all" in sys.argv
    limit,        \* the limit argument: None or an integer
    files,        \* the list get_minute_pdfs returned
    pdf,          \* the PDF given to extract_pdf_text: readable or not, its page texts
    ocr,          \* what the OCR libraries do for that PDF: status, text per image
    pdf_text,     \* the text extract_pdf_text returned
    rows,         \* what analyze_with_anthropic returned for one document
    all_rows,     \* the records accumulated for the output file
    key_set,      \* ANTHROPIC_API_KEY is set to a non-empty value
    idx,          \* how many documents the loop of main has finished
    resp,         \* what the API did for each request of the current document
    log,          \* per finished document: what was extracted, requested, added
    out_files,    \* the output files: previous content, content, writes of this run
    exit_code,    \* exit status of the process; -1 while it runs
    diag,         \* the configuration diagnostics printed so far
    run,          \* how many times the script has been started on this file system
    json_dir,     \* process_meeting_minutes.py: stem -> data of each file of JSON_DIR
    answer,       \* process_meeting_minutes.py: what the user typed at the prompt
    successful,   \* process_meeting_minutes.py: counter of main
    failed,       \* process_meeting_minutes.py: counter of main
    env_file,     \* ROOT / ".env.local": whether it exists, its lines
    environ       \* os.environ: name -> value

dateVars == <<filename, date_hint>>
locVars == <<dir_exists, dir, include_all, limit, files>>
textVars == <<pdf, ocr, pdf_text>>
normVars == <<rows, all_rows>>
runVars == <<key_set, run, idx, resp, log, out_files, exit_code, diag>>
pmmVars == <<json_dir, answer, successful, failed>>
envVars == <<env_file, environ>>
vars == <<script, pc, dateVars, locVars, textVars, normVars, runVars, pmmVars, envVars>>

(***************************************************************************)
(* Characters and strings                                                  *)
(***************************************************************************)
UpperChars == <<"A","B","C","D","E","F","G","H","I","J","K","L","M",
                "N","O","P","Q","R","S","T","U","V","W","X","Y","Z">>
LowerChars == <<"a","b","c","d","e","f","g","h","i","j","k","l","m",
                "n","o","p","q","r","s","t","u","v","w","x","y","z">>
DigitChars == <<"0","1","2","3","4","5","6","7","8","9">>

\* code-point order of the characters the model uses (Python compares str by code point)
CharOrder == <<" ", "-", ".">> \o DigitChars \o UpperChars \o <<"_">> \o LowerChars

Ord(c) == CHOOSE i \in 1..Len(CharOrder) : CharOrder[i] = c

\* str.lower() on one character
LowerChar(c) ==
    IF \E i \in 1..Len(UpperChars) : UpperChars[i] = c
    THEN LowerChars[CHOOSE i \in 1..Len(UpperChars) : UpperChars[i] = c]
    ELSE c

\* str.lower()
Lower(s) == [i \in 1..Len(s) |-> LowerChar(s[i])]

\* "sub in s"
Contains(s, sub) ==
    \E i \in 1..(Len(s) - Len(sub) + 1) : SubSeq(s, i, i + Len(sub) - 1) = sub

IsDigit(c) == \E i \in 1..Len(DigitChars) : DigitChars[i] = c

AllDigits(s) == \A i \in 1..Len(s) : IsDigit(s[i])

DigitVal(c) == (CHOOSE i \in 1..Len(DigitChars) : DigitChars[i] = c) - 1

\* int(s) for a string of decimal digits
RECURSIVE StrToInt(_)
StrToInt(s) ==
    IF Len(s) = 0 THEN 0
    ELSE 10 * StrToInt(SubSeq(s, 1, Len(s) - 1)) + DigitVal(s[Len(s)])

\* str(n) for a natural number
RECURSIVE IntToStr(_)
IntToStr(n) ==
    IF n < 10 THEN <<DigitChars[n + 1]>>
    ELSE IntToStr(n \div 10) \o <<DigitChars[(n % 10) + 1]>>

\* str.zfill(2)
Zfill2(s) == IF Len(s) >= 2 THEN s ELSE IF Len(s) = 1 THEN <<"0">> \o s ELSE <<"0","0">>

\* position of the last "." of a name, 0 when there is none (str.rfind, 1-based)
LastDot(n) ==
    IF \E i \in 1..Len(n) : n[i] = "."
    THEN CHOOSE i \in 1..Len(n) : n[i] = "." /\ \A j \in (i+1)..Len(n) : n[j] # "."
    ELSE 0

\* pathlib: PurePath.suffix of a bare file name
Suffix(n) ==
    LET p == LastDot(n) IN
    IF 1 < p /\ p < Len(n) THEN SubSeq(n, p, Len(n)) ELSE <<>>

\* pathlib: PurePath.stem of a bare file name
Stem(n) ==
    LET p == LastDot(n) IN
    IF 1 < p /\ p < Len(n) THEN SubSeq(n, 1, p - 1) ELSE n

(***************************************************************************)
(* date_from_filename                                                      *)
(***************************************************************************)
\* (\d{1,2})\.(\d{1,2})\.(\d{2}) matched at position s with group lengths a, b
M1At(base, s, a, b) ==
    /\ s + a + b + 3 <= Len(base)
    /\ AllDigits(SubSeq(base, s, s + a - 1))
    /\ base[s + a] = "."
    /\ AllDigits(SubSeq(base, s + a + 1, s + a + b))
    /\ base[s + a + b + 1] = "."
    /\ AllDigits(SubSeq(base, s + a + b + 2, s + a + b + 3))

\* (\d{1,2})-(\d{1,2})-(\d{4}) matched at position s with group lengths a, b
M2At(base, s, a, b) ==
    /\ s + a + b + 5 <= Len(base)
    /\ AllDigits(SubSeq(base, s, s + a - 1))
    /\ base[s + a] = "-"
    /\ AllDigits(SubSeq(base, s + a + 1, s + a + b))
    /\ base[s + a + b + 1] = "-"
    /\ AllDigits(SubSeq(base, s + a + b + 2, s + a + b + 5))

\* the attempts of re.search in the order the regex engine makes them:
\* leftmost start first, and at one start the greedy (longer) groups first
Attempts(base) ==
    [k \in 1..(4 * Len(base)) |->
        [s |-> ((k - 1) \div 4) + 1,
         a |-> IF ((k - 1) % 4) < 2 THEN 2 ELSE 1,
         b |-> IF ((k - 1) % 2) = 0 THEN 2 ELSE 1]]

\* re.search(r"(\d{1,2})\.(\d{1,2})\.(\d{2})", base): the groups, or found = FALSE
Search1(base) ==
    LET att == Attempts(base)
        hits == {k \in 1..Len(att) : M1At(base, att[k].s, att[k].a, att[k].b)}
    IN  IF hits = {} THEN [found |-> FALSE, g1 |-> <<>>, g2 |-> <<>>, g3 |-> <<>>]
        ELSE LET k == CHOOSE x \in hits : \A y \in hits : x <= y
                 s == att[k].s
                 a == att[k].a
                 b == att[k].b
             IN  [found |-> TRUE,
                  g1 |-> SubSeq(base, s, s + a - 1),
                  g2 |-> SubSeq(base, s + a + 1, s + a + b),
                  g3 |-> SubSeq(base, s + a + b + 2, s + a + b + 3)]

\* re.search(r"(\d{1,2})-(\d{1,2})-(\d{4})", base)
Search2(base) ==
    LET att == Attempts(base)
        hits == {k \in 1..Len(att) : M2At(base, att[k].s, att[k].a, att[k].b)}
    IN  IF hits = {} THEN [found |-> FALSE, g1 |-> <<>>, g2 |-> <<>>, g3 |-> <<>>]
        ELSE LET k == CHOOSE x \in hits : \A y \in hits : x <= y
                 s == att[k].s
                 a == att[k].a
                 b == att[k].b
             IN  [found |-> TRUE,
                  g1 |-> SubSeq(base, s, s + a - 1),
                  g2 |-> SubSeq(base, s + a + 1, s + a + b),
                  g3 |-> SubSeq(base, s + a + b + 2, s + a + b + 5)]

\* mutant of PivotYear: the 50-year pivot forgotten
PivotYear_NoPivot(yy) == 2000 + StrToInt(yy)

\* year = 2000 + int(yy) if int(yy) < 50 else 1900 + int(yy)
PivotYear(yy) == IF StrToInt(yy) < 50 THEN 2000 + StrToInt(yy) ELSE 1900 + StrToInt(yy)

\* f"{year}-{month.zfill(2)}-{day.zfill(2)}"
FormatDate(year, month, day) == year \o <<"-">> \o Zfill2(month) \o <<"-">> \o Zfill2(day)

\* what each script returns when neither pattern matches
NoDate(scr) == IF scr = "scan" THEN <<"u","n","k","n","o","w","n">> ELSE <<>>

\* mutant of date_from_filename: M-D-YYYY tried before M.D.YY
date_from_filename_M2First(scr, fname) ==
    LET base == Stem(fname)
        m1 == Search1(base)
        m2 == Search2(base)
    IN  IF m2.found THEN FormatDate(m2.g3, m2.g1, m2.g2)
        ELSE IF m1.found THEN FormatDate(IntToStr(PivotYear(m1.g3)), m1.g1, m1.g2)
        ELSE NoDate(scr)

date_from_filename(scr, fname) ==
    LET base == Stem(fname)
        m1 == Search1(base)
        m2 == Search2(base)
    IN  IF m1.found THEN FormatDate(IntToStr(PivotYear(m1.g3)), m1.g1, m1.g2)
        ELSE IF m2.found THEN FormatDate(m2.g3, m2.g1, m2.g2)
        ELSE NoDate(scr)


(***************************************************************************)
(* get_minute_pdfs (document locator)                                      *)
(***************************************************************************)
StrPdf == <<".","p","d","f">>
StrDraft == <<"d","r","a","f","t">>
StrMinutes == <<"m","i","n","u","t","e","s">>
StrMtg == <<"m","t","g">>
StrSpecialMtg == <<"s","p","e","c","i","a","l","_","m","t","g">>
StrAgenda == <<"a","g","e","n","d","a">>
StrAttachment == <<"a","t","t","a","c","h","m","e","n","t">>
StrAbstract == <<"a","b","s","t","r","a","c","t">>
StrBdMtg == <<"b","d",".","_","m","t","g",".","_">>
StrMtgMinutes == <<"_","m","t","g","_","m","i","n","u","t","e","s">>

\* f.suffix.lower() == ".pdf"
IsPdf(n) == Lower(Suffix(n)) = StrPdf

\* re.match(r"^bd\._mtg\._\d{2}\.\d{2}\.\d{2}\.pdf$", n, re.I)
MatchBdMtg(n) ==
    /\ Len(n) = 21
    /\ Lower(SubSeq(n, 1, 9)) = StrBdMtg
    /\ AllDigits(SubSeq(n, 10, 11)) /\ n[12] = "."
    /\ AllDigits(SubSeq(n, 13, 14)) /\ n[15] = "."
    /\ AllDigits(SubSeq(n, 16, 17))
    /\ Lower(SubSeq(n, 18, 21)) = StrPdf

\* re.match(r"^\d\.\d{2}\.\d{2}_mtg_minutes\.pdf$", n, re.I)
MatchMtgMinutes(n) ==
    /\ Len(n) = 23
    /\ IsDigit(n[1]) /\ n[2] = "."
    /\ AllDigits(SubSeq(n, 3, 4)) /\ n[5] = "."
    /\ AllDigits(SubSeq(n, 6, 7))
    /\ Lower(SubSeq(n, 8, 19)) = StrMtgMinutes
    /\ Lower(SubSeq(n, 20, 23)) = StrPdf

\* mutant of IsDraft: the name tested without lower()
IsDraft_CaseSensitive(n) == Contains(n, StrDraft)

\* "draft" in lower: the test that drops a name
IsDraft(n) == Contains(Lower(n), StrDraft)

\* mutant of MinutesConvention: any name with "mtg" is taken
MinutesConvention_AnyMtg(scr, n) ==
    \/ Contains(Lower(n), StrMinutes)
    \/ MatchBdMtg(n)
    \/ MatchMtgMinutes(n)
    \/ scr = "csv" /\ Contains(Lower(n), StrMtg)

\* the if/elif chain of the minutes-only loop, after the draft test
MinutesConvention(scr, n) ==
    LET lower == Lower(n) IN
    \/ Contains(lower, StrMinutes)
    \/ MatchBdMtg(n)
    \/ MatchMtgMinutes(n)
    \/ /\ scr = "csv"
       /\ \/ Contains(lower, StrSpecialMtg)
          \/ /\ Contains(lower, StrMtg)
             /\ ~Contains(lower, StrAgenda)
             /\ ~Contains(lower, StrAttachment)
             /\ ~Contains(lower, StrAbstract)

\* the names get_minute_pdfs keeps, before sorting
KeptNames(scr, names, all) ==
    IF scr = "csv" /\ all
    THEN {n \in names : ~IsDraft(n)}
    ELSE {n \in names : ~IsDraft(n) /\ MinutesConvention(scr, n)}

\* a < b for Python str: by code point, a proper prefix first
LexLess(a, b) ==
    \/ \E i \in 1..Len(a) :
          /\ i <= Len(b)
          /\ SubSeq(a, 1, i - 1) = SubSeq(b, 1, i - 1)
          /\ Ord(a[i]) < Ord(b[i])
    \/ Len(a) < Len(b) /\ a = SubSeq(b, 1, Len(a))

\* list.sort() of distinct names
RECURSIVE SortNames(_)
SortNames(S) ==
    IF S = {} THEN <<>>
    ELSE LET least == CHOOSE x \in S : \A y \in S \ {x} : LexLess(x, y)
         IN  <<least>> \o SortNames(S \ {least})

\* mutant of SlicePrefix: the tail seq[-k:] instead of the head
SlicePrefix_Tail(seq, k) ==
    LET n == Len(seq)
        e == IF k >= 0 THEN (IF k < n THEN k ELSE n)
                       ELSE (IF n + k > 0 THEN n + k ELSE 0)
    IN  SubSeq(seq, n - e + 1, n)

\* seq[:k] of Python, k any integer
SlicePrefix(seq, k) ==
    LET n == Len(seq)
        e == IF k >= 0 THEN (IF k < n THEN k ELSE n)
                       ELSE (IF n + k > 0 THEN n + k ELSE 0)
    IN  SubSeq(seq, 1, e)

\* a limit argument: None, or an integer
NoLimit == [given |-> FALSE, n |-> 0]
Limit(k) == [given |-> TRUE, n |-> k]

\* if limit is not None: minutes = minutes[:limit]
ApplyLimit(seq, lim) == IF lim.given THEN SlicePrefix(seq, lim.n) ELSE seq

\* get_minute_pdfs(limit, include_all); entries is the directory listing
get_minute_pdfs(scr, exists, entries, lim, all) ==
    IF ~exists THEN <<>>
    ELSE LET names == {f \in entries : IsPdf(f)}
         IN  ApplyLimit(SortNames(KeptNames(scr, names, all)), lim)

(***************************************************************************)
(* extract_pdf_text and _extract_text_ocr.  A text is a sequence of runs   *)
(* [c, n]: the character c repeated n >= 1 times; long texts stay small.   *)
(***************************************************************************)
Run(c, n) == [c |-> c, n |-> n]

IsSpace(c) == c \in {" ", "\n"}

\* len(text)
RECURSIVE TextLen(_)
TextLen(t) == IF Len(t) = 0 THEN 0 ELSE t[1].n + TextLen(Tail(t))

\* str.lstrip()
RECURSIVE LStrip(_)
LStrip(t) == IF Len(t) > 0 /\ IsSpace(t[1].c) THEN LStrip(Tail(t)) ELSE t

\* str.rstrip()
RECURSIVE RStrip(_)
RStrip(t) ==
    IF Len(t) > 0 /\ IsSpace(t[Len(t)].c) THEN RStrip(SubSeq(t, 1, Len(t) - 1)) ELSE t

\* str.strip()
Strip(t) == RStrip(LStrip(t))

\* len(text.strip())
StripLen(t) == TextLen(Strip(t))

\* "\n".join(parts)
RECURSIVE JoinNl(_)
JoinNl(parts) ==
    IF Len(parts) = 0 THEN <<>>
    ELSE IF Len(parts) = 1 THEN parts[1]
    ELSE parts[1] \o <<Run("\n", 1)>> \o JoinNl(Tail(parts))

\* parts: the page texts that are truthy, in page order
RECURSIVE TruthyParts(_)
TruthyParts(pages) ==
    IF Len(pages) = 0 THEN <<>>
    ELSE IF TextLen(pages[1]) > 0 THEN <<pages[1]>> \o TruthyParts(Tail(pages))
    ELSE TruthyParts(Tail(pages))

\* text = "\n".join(parts) of extract_pdf_text
PrimaryText(d) == JoinNl(TruthyParts(d.pages))

\* _extract_text_ocr: "" when the libraries are missing or the conversion
\* raises, else the per-image texts joined (empty ones included)
extract_text_ocr(o) == IF o.status = "ok" THEN JoinNl(o.images) ELSE <<>>

MinPrimaryChars == 100

\* mutant of PreferOcr: OCR also wins ties
PreferOcr_Ties(text, text_from_ocr) ==
    TextLen(text_from_ocr) > 0 /\ StripLen(text_from_ocr) >= StripLen(text)

\* text_from_ocr and len(text_from_ocr.strip()) > len(text.strip())
PreferOcr(text, text_from_ocr) ==
    TextLen(text_from_ocr) > 0 /\ StripLen(text_from_ocr) > StripLen(text)

\* extract_pdf_text of extract_voting_record_csv.py, for a readable PDF
extract_pdf_text_csv(d, o) ==
    LET text == PrimaryText(d) IN
    IF StripLen(text) >= MinPrimaryChars THEN text
    ELSE IF PreferOcr(text, extract_text_ocr(o)) THEN extract_text_ocr(o)
    ELSE text

\* extract_pdf_text of scan_trustees_votes.py: no OCR
extract_pdf_text_scan(d) == PrimaryText(d)

extract_pdf_text(scr, d, o) ==
    IF scr = "csv" THEN extract_pdf_text_csv(d, o) ELSE extract_pdf_text_scan(d)

(***************************************************************************)
(* JSON values as Python holds them after json.loads, and the record       *)
(* normalizer of extract_voting_record_csv.py (main, lines 310-323).       *)
(***************************************************************************)
JNull == [t |-> "null"]
JBool(b) == [t |-> "bool", b |-> b]
JNum(n) == [t |-> "num", n |-> n]
JStr(s) == [t |-> "str", s |-> s]
JList(items) == [t |-> "list", items |-> items]
JObj(f) == [t |-> "obj", f |-> f]

\* the empty dict
NoFields == [k \in {} |-> JNull]

\* bool(v) of Python
Truthy(v) ==
    CASE v.t = "null" -> FALSE
      [] v.t = "bool" -> v.b
      [] v.t = "num" -> v.n # 0
      [] v.t = "str" -> Len(v.s) > 0
      [] v.t = "list" -> Len(v.items) > 0
      [] v.t = "obj" -> DOMAIN v.f # {}

\* isinstance(v, dict)
IsDict(v) == v.t = "obj"

\* d.get(k): None when the key is absent
Get(d, k) == IF k \in DOMAIN d.f THEN d.f[k] ELSE JNull

\* mutant of SetDefault: the dict is left as it was
SetDefault_Skip(d, k, v) == d

\* d.setdefault(k, v): the dict afterwards
SetDefault(d, k, v) ==
    IF k \in DOMAIN d.f THEN d
    ELSE JObj([x \in (DOMAIN d.f) \cup {k} |-> IF x = k THEN v ELSE d.f[x]])

\* str(v) for the values the model generates: strings, integers, booleans, [] and {}
PyStr(v) ==
    CASE v.t = "str" -> v.s
      [] v.t = "num" -> IF v.n < 0 THEN <<"-">> \o IntToStr(0 - v.n) ELSE IntToStr(v.n)
      [] v.t = "bool" -> IF v.b THEN <<"T","r","u","e">> ELSE <<"F","a","l","s","e">>
      [] v.t = "null" -> <<"N","o","n","e">>
      [] v.t = "list" -> <<"[","]">>
      [] v.t = "obj" -> <<"{","}">>

IsWhite(c) == c \in {" ", "\n", "\t"}

RECURSIVE LStripChars(_)
LStripChars(s) == IF Len(s) > 0 /\ IsWhite(s[1]) THEN LStripChars(Tail(s)) ELSE s

RECURSIVE RStripChars(_)
RStripChars(s) ==
    IF Len(s) > 0 /\ IsWhite(s[Len(s)]) THEN RStripChars(SubSeq(s, 1, Len(s) - 1)) ELSE s

\* mutant of StripChars: only the left side stripped
StripChars_LeftOnly(s) == LStripChars(s)

\* str.strip() on a string of characters
StripChars(s) == RStripChars(LStripChars(s))

IsLetter(c) ==
    \/ \E i \in 1..Len(UpperChars) : UpperChars[i] = c
    \/ \E i \in 1..Len(LowerChars) : LowerChars[i] = c

UpperChar(c) ==
    IF \E i \in 1..Len(LowerChars) : LowerChars[i] = c
    THEN UpperChars[CHOOSE i \in 1..Len(LowerChars) : LowerChars[i] = c]
    ELSE c

\* h.replace("_", " ")
UnderscoreToSpace(s) == [i \in 1..Len(s) |-> IF s[i] = "_" THEN " " ELSE s[i]]

\* str.title(): a letter after a non-letter is upper-cased, any other letter lower-cased
TitleCase(s) ==
    [i \in 1..Len(s) |->
        IF ~IsLetter(s[i]) THEN s[i]
        ELSE IF i = 1 \/ ~IsLetter(s[i - 1]) THEN UpperChar(s[i])
        ELSE LowerChar(s[i])]

\* h.replace("_", " ").title()
TitleKey(h) == TitleCase(UnderscoreToSpace(h))

H_date == <<"d","a","t","e">>
H_section == <<"s","e","c","t","i","o","n">>
H_motion_description == <<"m","o","t","i","o","n","_","d","e","s","c","r","i","p","t","i","o","n">>
H_mover == <<"m","o","v","e","r">>
H_seconder == <<"s","e","c","o","n","d","e","r">>
H_vote_result == <<"v","o","t","e","_","r","e","s","u","l","t">>
H_mayor_rossi == <<"m","a","y","o","r","_","r","o","s","s","i">>
H_trustee_price_bush == <<"t","r","u","s","t","e","e","_","p","r","i","c","e","_","b","u","s","h">>
H_trustee_dunkelbarger == <<"t","r","u","s","t","e","e","_","d","u","n","k","e","l","b","a","r","g","e","r">>
H_trustee_vandeinse_perez == <<"t","r","u","s","t","e","e","_","v","a","n","d","e","i","n","s","e","_","p","e","r","e","z">>
H_trustee_dubuque == <<"t","r","u","s","t","e","e","_","d","u","b","u","q","u","e">>
H_notes == <<"n","o","t","e","s">>

CSV_HEADERS ==
    <<H_date, H_section, H_motion_description, H_mover, H_seconder, H_vote_result,
      H_mayor_rossi, H_trustee_price_bush, H_trustee_dunkelbarger,
      H_trustee_vandeinse_perez, H_trustee_dubuque, H_notes>>

HeaderSet == {CSV_HEADERS[i] : i \in 1..Len(CSV_HEADERS)}

\* val = r.get(h); if val is None: val = r.get(title); str(val).strip() or ""
FieldValue(r, h) ==
    LET val == IF Get(r, h) = JNull THEN Get(r, TitleKey(h)) ELSE Get(r, h)
    IN  IF val = JNull THEN <<>> ELSE StripChars(PyStr(val))

\* one pass of the loop body for a dict entry: the row_dict appended
NormalizeRow(r, hint) ==
    LET r1 == SetDefault(r, H_date, JStr(hint))
    IN  [h \in HeaderSet |-> FieldValue(r1, h)]

\* mutant of NormalizeItems: the loop ends at the first entry that is not a dict
RECURSIVE NormalizeItems_Break(_, _)
NormalizeItems_Break(items, hint) ==
    IF Len(items) = 0 THEN <<>>
    ELSE IF IsDict(items[1])
         THEN <<NormalizeRow(items[1], hint)>> \o NormalizeItems_Break(Tail(items), hint)
         ELSE <<>>

\* for r in rows: entries that are not dicts are skipped
RECURSIVE NormalizeItems(_, _)
NormalizeItems(items, hint) ==
    IF Len(items) = 0 THEN <<>>
    ELSE IF IsDict(items[1])
         THEN <<NormalizeRow(items[1], hint)>> \o NormalizeItems(Tail(items), hint)
         ELSE NormalizeItems(Tail(items), hint)

\* iter(v): what "for r in v" visits (a str gives its characters, a dict its
\* keys, all of them strings); numbers and booleans are not iterable
Iterable(v) == v.t \in {"list", "str", "obj"}

IterItems(v) ==
    CASE v.t = "list" -> v.items
      [] v.t = "str" -> [i \in 1..Len(v.s) |-> JStr(<<v.s[i]>>)]
      [] v.t = "obj" -> [i \in 1..Cardinality(DOMAIN v.f) |-> JStr(SortNames(DOMAIN v.f)[i])]
      [] OTHER -> <<>>

\* lines 310-323 for the value analyze_with_anthropic returned:
\* raised = the for statement raised TypeError, out = the rows appended
RowsLoop(rs, hint) ==
    IF ~Truthy(rs) THEN [raised |-> FALSE, out |-> <<>>]
    ELSE IF ~Iterable(rs) THEN [raised |-> TRUE, out |-> <<>>]
    ELSE [raised |-> FALSE, out |-> NormalizeItems(IterItems(rs), hint)]

(***************************************************************************)
(* Inputs of the date extractor.  The callers pass names returned by the   *)
(* document locator, which keeps only names whose suffix is ".pdf" in any  *)
(* letter case.                                                            *)
(***************************************************************************)
MaxCoreLen == 6      \* longest free-form name core
MaxField == 2        \* longest month / day digit run of the structured names

DateAlphabet == {"4", "5", ".", "-"}
FieldDigits == {"1", "9"}

SeqsUpTo(S, n) == UNION {[1..k -> S] : k \in 0..n}

ExtPdf == <<".","p","d","f">>
ExtPDF == <<".","P","D","F">>
TokBdMtg == <<"b","d",".","_","m","t","g",".","_">>
TokMinutes == <<"_","m","i","n","u","t","e","s">>

YearStrs == {<<"0","0">>, <<"4","9">>, <<"5","0">>, <<"9","9">>,
             <<"2","0","2","5">>, <<"1","9","4","9">>}

ShortNames == {c \o e : c \in SeqsUpTo(DateAlphabet, MaxCoreLen), e \in {ExtPdf, ExtPDF}}

StructNames ==
    {pre \o m \o <<s1>> \o d \o <<s2>> \o y \o post \o ExtPdf :
        pre \in {<<>>, TokBdMtg},
        m \in SeqsUpTo(FieldDigits, MaxField) \ {<<>>},
        s1 \in {".", "-"},
        d \in SeqsUpTo(FieldDigits, MaxField) \ {<<>>},
        s2 \in {".", "-"},
        y \in YearStrs,
        post \in {<<>>, TokMinutes}}

Name_bd_mtg_03_15_24 == TokBdMtg \o <<"0","3",".","1","5",".","2","4">> \o ExtPdf
Name_1_2_2025_minutes == <<"1","-","2","-","2","0","2","5">> \o TokMinutes \o ExtPdf
Name_both_patterns == <<"6","-","7","-","2","0","2","4","_","1",".","2",".","2","5">> \o ExtPdf

ExampleNames == {Name_bd_mtg_03_15_24, Name_1_2_2025_minutes, Name_both_patterns}

DateInputs == ShortNames \cup StructNames \cup ExampleNames

\* the variables of load_env when it is not the function under check
EnvIdle == env_file = [exists |-> FALSE, lines |-> <<>>] /\ environ = <<>>

\* the variables of a whole run when a single function is under check
RunIdle ==
    /\ key_set = TRUE
    /\ run = 1
    /\ idx = 0
    /\ resp = <<>>
    /\ log = <<>>
    /\ out_files = <<>>
    /\ exit_code = -1
    /\ diag = {}
    /\ json_dir = <<>>
    /\ answer = <<>>
    /\ successful = 0
    /\ failed = 0

\* the variables of the normalizer when it is not the function under check
NormIdle == rows = JNull /\ all_rows = <<>>

\* the variables of the text extractor when it is not the function under check
TextIdle ==
    /\ pdf = [readable |-> TRUE, pages |-> <<>>]
    /\ ocr = [status |-> "unavailable", images |-> <<>>]
    /\ pdf_text = <<>>

\* the variables of the locator when it is not the function under check
LocIdle ==
    /\ dir_exists = TRUE
    /\ dir = {}
    /\ include_all = FALSE
    /\ limit = NoLimit
    /\ files = <<>>

\* the names each script can pass on: the locator kept them
Locatable(scr, n) == get_minute_pdfs(scr, TRUE, {n}, NoLimit, TRUE) = <<n>>

DateInit ==
    /\ script \in {"csv", "scan"}
    /\ pc = "date_in"
    /\ filename \in {n \in DateInputs : Locatable(script, n)}
    /\ date_hint = <<>>
    /\ LocIdle
    /\ TextIdle
    /\ NormIdle
    /\ RunIdle
    /\ EnvIdle

\* date = date_from_filename(name)
DateExtract ==
    /\ pc = "date_in"
    /\ date_hint' = date_from_filename(script, filename)
    /\ pc' = "date_out"
    /\ UNCHANGED <<script, envVars, filename, locVars, textVars, normVars, runVars, pmmVars>>

DateNext == DateExtract

SpecDate == DateInit /\ [][DateNext]_vars

\* an ISO YYYY-MM-DD string: four digits, "-", two digits, "-", two digits
IsIsoDate(d) ==
    /\ Len(d) = 10
    /\ d[5] = "-" /\ d[8] = "-"
    /\ AllDigits(SubSeq(d, 1, 4))
    /\ AllDigits(SubSeq(d, 6, 7))
    /\ AllDigits(SubSeq(d, 9, 10))

\* s is t padded on the left with zeros to two characters
IsPadded2(s, t) ==
    \/ Len(t) = 2 /\ s = t
    \/ Len(t) = 1 /\ s = <<"0", t[1]>>

\* C8: a filename matching M.D.YY gives YYYY-MM-DD with YYYY = 2000+YY when
\* YY < 50 and 1900+YY otherwise, month and day zero-padded to two digits.
C8_TwoDigitYear ==
    (pc = "date_out" /\ Search1(filename).found) =>
        LET m == Search1(filename)
            yy == StrToInt(m.g3)
        IN  /\ IsIsoDate(date_hint)
            /\ StrToInt(SubSeq(date_hint, 1, 4)) = (IF yy < 50 THEN 2000 + yy ELSE 1900 + yy)
            /\ IsPadded2(SubSeq(date_hint, 6, 7), m.g1)
            /\ IsPadded2(SubSeq(date_hint, 9, 10), m.g2)

\* the example of the specification: bd._mtg._03.15.24.pdf gives 2024-03-15
C8_Witness ==
    /\ pc = "date_out"
    /\ filename = Name_bd_mtg_03_15_24
    /\ date_hint = <<"2","0","2","4","-","0","3","-","1","5">>

\* what the claim expects of a M.D.YY match
IsTwoDigitYearDate(d, m) ==
    LET yy == StrToInt(m.g3)
    IN  /\ IsIsoDate(d)
        /\ StrToInt(SubSeq(d, 1, 4)) = (IF yy < 50 THEN 2000 + yy ELSE 1900 + yy)
        /\ IsPadded2(SubSeq(d, 6, 7), m.g1)
        /\ IsPadded2(SubSeq(d, 9, 10), m.g2)

\* what the claim expects of a M-D-YYYY match
IsFourDigitYearDate(d, m) ==
    /\ IsIsoDate(d)
    /\ SubSeq(d, 1, 4) = m.g3
    /\ IsPadded2(SubSeq(d, 6, 7), m.g1)
    /\ IsPadded2(SubSeq(d, 9, 10), m.g2)

StrUnknown == <<"u","n","k","n","o","w","n">>

\* C9 as stated: the result is an ISO date or the empty string; M.D.YY decides
\* when it matches, else M-D-YYYY, else the result is the empty string.
C9_Original ==
    (pc = "date_out") =>
        LET m1 == Search1(filename)
            m2 == Search2(filename)
        IN  /\ IsIsoDate(date_hint) \/ date_hint = <<>>
            /\ m1.found => IsTwoDigitYearDate(date_hint, m1)
            /\ (~m1.found /\ m2.found) => IsFourDigitYearDate(date_hint, m2)
            /\ (~m1.found /\ ~m2.found) => date_hint = <<>>

\* C9 (amended): the result is an ISO date when a pattern matches (M.D.YY first,
\* then M-D-YYYY); when neither matches it is the empty string in
\* extract_voting_record_csv.py and the string "unknown" in scan_trustees_votes.py.
C9_DateDomainAndOrder ==
    (pc = "date_out") =>
        LET m1 == Search1(filename)
            m2 == Search2(filename)
        IN  /\ IsIsoDate(date_hint) \/ date_hint = <<>> \/ date_hint = StrUnknown
            /\ m1.found => IsTwoDigitYearDate(date_hint, m1)
            /\ (~m1.found /\ m2.found) => IsFourDigitYearDate(date_hint, m2)
            /\ (~m1.found /\ ~m2.found /\ script = "csv") => date_hint = <<>>
            /\ (~m1.found /\ ~m2.found /\ script = "scan") => date_hint = StrUnknown

\* a name with a M-D-YYYY date and no M.D.YY match yields the four-digit year
C9_Witness ==
    /\ pc = "date_out"
    /\ filename = Name_1_2_2025_minutes
    /\ ~Search1(filename).found
    /\ date_hint = <<"2","0","2","5","-","0","1","-","0","2">>

(***************************************************************************)
(* The document locator under check: one directory listing, one call.      *)
(***************************************************************************)
MaxTokens == 2       \* tokens in a generated directory entry
MaxFiles == 3        \* entries in a generated multi-file directory
MaxLimit == 2        \* largest generated --limit

LocTokens ==
    {StrDraft, <<"D","r","a","f","T">>, StrMinutes, <<"M","i","n","u","t","e","s">>,
     StrMtg, StrSpecialMtg, StrAgenda, StrAttachment, StrAbstract, <<"_">>,
     StrBdMtg \o <<"0","1",".","0","2",".","2","5">>,
     <<"1",".","0","2",".","2","5">> \o StrMtgMinutes}

RECURSIVE Concat(_)
Concat(ss) == IF Len(ss) = 0 THEN <<>> ELSE ss[1] \o Concat(Tail(ss))

LocExts == {ExtPdf, ExtPDF, <<".","t","x","t">>}

\* directory entries made of up to MaxTokens tokens and an extension
TokenNames == {Concat(ts) \o e : ts \in SeqsUpTo(LocTokens, MaxTokens), e \in LocExts}

\* a small pool whose sort order depends on letter case, digits and "_"
PoolNames ==
    {<<"A">> \o TokMinutes \o ExtPdf,
     <<"a">> \o TokMinutes \o ExtPdf,
     TokMinutes \o ExtPDF,
     <<"2","-","3","-","2","0","2","4">> \o TokMinutes \o ExtPdf,
     StrBdMtg \o <<"0","1",".","0","2",".","2","5">> \o ExtPdf,
     <<"D","R","A","F","T">> \o TokMinutes \o ExtPdf,
     StrMtg \o <<"_">> \o StrAgenda \o ExtPdf,
     <<"n","o","t","e","s">> \o ExtPdf}

LocDirs ==
    {{n} : n \in TokenNames} \cup {S \in SUBSET PoolNames : Cardinality(S) <= MaxFiles}

LocLimits(scr) ==
    {Limit(k) : k \in (-1)..MaxLimit} \cup (IF scr = "csv" THEN {NoLimit} ELSE {Limit(3)})

DateIdle == filename = <<>> /\ date_hint = <<>>

LocInit ==
    /\ script \in {"csv", "scan"}
    /\ pc = "loc_in"
    /\ dir_exists \in BOOLEAN
    /\ dir \in (IF dir_exists THEN LocDirs ELSE {{}})
    /\ include_all \in (IF script = "csv" THEN BOOLEAN ELSE {FALSE})
    /\ limit \in LocLimits(script)
    /\ files = <<>>
    /\ DateIdle
    /\ TextIdle
    /\ NormIdle
    /\ RunIdle
    /\ EnvIdle

\* files = get_minute_pdfs(limit=limit, include_all=include_all)
Locate ==
    /\ pc = "loc_in"
    /\ files' = get_minute_pdfs(script, dir_exists, dir, limit, include_all)
    /\ pc' = "loc_out"
    /\ UNCHANGED <<script, envVars, dateVars, textVars, normVars, dir_exists, dir, include_all, limit, runVars, pmmVars>>

LocNext == Locate

SpecLoc == LocInit /\ [][LocNext]_vars

\* the name contains the letters d, r, a, f, t in a row, each in either case
HasDraftAnyCase(n) ==
    \E i \in 1..(Len(n) - 4) :
        /\ n[i] \in {"d", "D"}
        /\ n[i + 1] \in {"r", "R"}
        /\ n[i + 2] \in {"a", "A"}
        /\ n[i + 3] \in {"f", "F"}
        /\ n[i + 4] \in {"t", "T"}

\* C6: no name returned by get_minute_pdfs contains "draft" in any letter
\* case, whatever the directory, the limit and the all flag.
C6_NeverDraft ==
    (pc = "loc_out") => \A i \in 1..Len(files) : ~HasDraftAnyCase(files[i])

\* a draft that also matches a minutes convention was listed and left out,
\* while another name was returned
C6_Witness ==
    /\ pc = "loc_out"
    /\ Len(files) > 0
    /\ \E n \in dir :
          /\ HasDraftAnyCase(n)
          /\ Contains(Lower(n), StrMinutes)
          /\ IsPdf(n)
          /\ \A i \in 1..Len(files) : files[i] # n

\* the names the call would return without a limit
Unlimited == KeptNames(script, {f \in dir : IsPdf(f)}, include_all)

\* C7: with N names returned without a limit and a limit K, 0 <= K < N, the
\* call returns exactly K names, in lexicographic order, the K least ones.
C7_LimitFrontSlice ==
    (pc = "loc_out" /\ dir_exists /\ limit.given /\ limit.n >= 0
        /\ limit.n < Cardinality(Unlimited)) =>
        /\ Len(files) = limit.n
        /\ \A i, j \in 1..Len(files) : i < j => LexLess(files[i], files[j])
        /\ \A i \in 1..Len(files) : files[i] \in Unlimited
        /\ \A x \in Unlimited :
              (\A i \in 1..Len(files) : files[i] # x) =>
                  \A i \in 1..Len(files) : LexLess(files[i], x)

\* three matching names, limit 2: two returned, upper case before lower case
C7_Witness ==
    /\ pc = "loc_out"
    /\ Cardinality(Unlimited) = 3
    /\ limit = Limit(2)
    /\ Len(files) = 2
    /\ files[1] = <<"A">> \o TokMinutes \o ExtPdf
    /\ files[2] = <<"a">> \o TokMinutes \o ExtPdf

(***************************************************************************)
(* The text extractor under check: one PDF, one call.                      *)
(***************************************************************************)
MaxPages == 2        \* pages of a generated PDF
MaxImages == 2       \* page images the OCR converts

PageTexts ==
    {<<>>,
     <<Run(" ", 1)>>,
     <<Run("a", 49)>>,
     <<Run("a", 50)>>,
     <<Run(" ", 2), Run("a", 99), Run("\n", 1)>>}

ImageTexts ==
    {<<>>,
     <<Run("b", 50)>>,
     <<Run("b", 99), Run(" ", 1)>>,
     <<Run(" ", 1), Run("b", 100)>>}

Pdfs ==
    {[readable |-> FALSE, pages |-> <<>>]} \cup
    {[readable |-> TRUE, pages |-> ps] : ps \in SeqsUpTo(PageTexts, MaxPages)}

Ocrs ==
    {[status |-> st, images |-> <<>>] : st \in {"unavailable", "failed"}} \cup
    {[status |-> "ok", images |-> im] : im \in SeqsUpTo(ImageTexts, MaxImages)}

TextInit ==
    /\ script \in {"csv", "scan"}
    /\ pc = "text_in"
    /\ pdf \in Pdfs
    /\ ocr \in (IF script = "csv" THEN Ocrs ELSE {[status |-> "unavailable", images |-> <<>>]})
    /\ pdf_text = <<>>
    /\ DateIdle
    /\ LocIdle
    /\ NormIdle
    /\ RunIdle
    /\ EnvIdle

\* pdf_text = extract_pdf_text(file_path)
ExtractText ==
    /\ pc = "text_in"
    /\ pdf.readable
    /\ pdf_text' = extract_pdf_text(script, pdf, ocr)
    /\ pc' = "text_out"
    /\ UNCHANGED <<script, envVars, dateVars, locVars, normVars, pdf, ocr, runVars, pmmVars>>

\* PdfReader(file_path) raises: the exception leaves extract_pdf_text
ExtractTextRaises ==
    /\ pc = "text_in"
    /\ ~pdf.readable
    /\ pc' = "text_raised"
    /\ UNCHANGED <<script, envVars, dateVars, locVars, textVars, normVars, runVars, pmmVars>>

TextNext == ExtractText \/ ExtractTextRaises

SpecText == TextInit /\ [][TextNext]_vars

\* C10: in extract_pdf_text of extract_voting_record_csv.py, a primary text of
\* fewer than 100 stripped characters gives way to an available OCR text with
\* more stripped characters; with OCR unavailable or failed the primary text is
\* returned even if short; on equal stripped lengths the primary text is returned.
C10_OcrFallback ==
    (pc = "text_out" /\ script = "csv") =>
        LET primary == JoinNl(TruthyParts(pdf.pages))
            fromOcr == JoinNl(ocr.images)
        IN  /\ (StripLen(primary) < 100 /\ ocr.status = "ok"
                  /\ StripLen(fromOcr) > StripLen(primary)) => pdf_text = fromOcr
            /\ (ocr.status # "ok") => pdf_text = primary
            /\ (ocr.status = "ok" /\ StripLen(fromOcr) = StripLen(primary)) =>
                  pdf_text = primary

\* a short primary text, a longer OCR text: the OCR text came back
C10_Witness ==
    /\ pc = "text_out" /\ script = "csv"
    /\ ocr.status = "ok"
    /\ StripLen(PrimaryText(pdf)) = 99
    /\ StripLen(JoinNl(ocr.images)) = 100
    /\ pdf_text = JoinNl(ocr.images)
    /\ pdf_text # PrimaryText(pdf)

(***************************************************************************)
(* The record normalizer under check: one returned value, one pass of the  *)
(* loop of main.                                                           *)
(***************************************************************************)
MaxEntries == 3      \* entries of a generated mixed list

StrYesPadded == <<" ","Y","E","S","\n">>
Str3a == <<"3","a">>
StrIsoHint == <<"2","0","2","5","-","0","1","-","0","2">>

FieldValues ==
    {JNull, JStr(<<>>), JStr(StrYesPadded), JStr(Str3a), JNum(7), JBool(TRUE)}

FocusKeys == {H_date, H_mover, TitleKey(H_mover), H_notes}

\* every dict over a subset of the focus keys
RichRows == UNION {{JObj(f) : f \in [K -> FieldValues]} : K \in SUBSET FocusKeys}

MixedEntries ==
    {JObj([k \in {H_mover} |-> JStr(Str3a)]),
     JObj([k \in {H_date, H_notes} |-> JStr(StrYesPadded)]),
     JStr(Str3a), JNull}

NormInputs ==
    {JList(<<r>>) : r \in RichRows}
        \cup {JList(es) : es \in SeqsUpTo(MixedEntries, MaxEntries)}
        \cup {JStr(Str3a), JNum(5), JObj([k \in {H_mover} |-> JNull])}

NormInit ==
    /\ script = "csv"
    /\ pc = "norm_in"
    /\ rows \in NormInputs
    /\ date_hint \in {<<>>, StrIsoHint}
    /\ filename = <<>>
    /\ all_rows = <<>>
    /\ LocIdle
    /\ TextIdle
    /\ RunIdle
    /\ EnvIdle

\* the loop over rows appends one row_dict per dict entry
NormalizeAppend ==
    /\ pc = "norm_in"
    /\ ~RowsLoop(rows, date_hint).raised
    /\ all_rows' = all_rows \o RowsLoop(rows, date_hint).out
    /\ pc' = "norm_out"
    /\ UNCHANGED <<script, envVars, dateVars, locVars, textVars, rows, runVars, pmmVars>>

\* "for r in rows" raises TypeError: nothing appended
NormalizeRaises ==
    /\ pc = "norm_in"
    /\ RowsLoop(rows, date_hint).raised
    /\ pc' = "norm_raised"
    /\ UNCHANGED <<script, envVars, dateVars, locVars, textVars, normVars, runVars, pmmVars>>

NormNext == NormalizeAppend \/ NormalizeRaises

SpecNorm == NormInit /\ [][NormNext]_vars

AnyChar == {CharOrder[i] : i \in 1..Len(CharOrder)} \cup {"\n", "\t", "[", "]", "{", "}"}

\* a Python str: a sequence of characters
IsString(x) == \A i \in 1..Len(x) : x[i] \in AnyChar

\* out is s with its leading and trailing whitespace removed
IsTrimOf(out, s) ==
    /\ \E i \in 0..Len(s) : \E j \in i..Len(s) :
          /\ out = SubSeq(s, i + 1, j)
          /\ \A k \in 1..i : s[k] \in {" ", "\n", "\t"}
          /\ \A k \in (j + 1)..Len(s) : s[k] \in {" ", "\n", "\t"}
    /\ Len(out) > 0 => (out[1] \notin {" ", "\n", "\t"} /\ out[Len(out)] \notin {" ", "\n", "\t"})

\* the state after the loop ran over a list holding one dict
OneDictNormalized ==
    /\ pc = "norm_out"
    /\ rows.t = "list" /\ Len(rows.items) = 1 /\ rows.items[1].t = "obj"

\* C4 as stated: the appended row has exactly the 12 CSV_HEADERS keys, every
\* value is a string, empty when the field is unknown, and every scalar value
\* present in the input row appears unchanged.
C4_Original ==
    OneDictNormalized =>
        LET r == rows.items[1].f
            out == all_rows[1]
        IN  /\ Len(all_rows) = 1
            /\ DOMAIN out = HeaderSet
            /\ \A h \in HeaderSet : IsString(out[h])
            /\ \A h \in (HeaderSet \cap DOMAIN r) :
                  /\ r[h].t = "str" => out[h] = r[h].s
                  /\ r[h].t = "num" => StrToInt(out[h]) = r[h].n

\* C4 (amended): the appended row has exactly the 12 CSV_HEADERS keys and every
\* value is a string; a string present in the input appears with its leading and
\* trailing whitespace removed, an integer as its decimal digits; a field that is
\* absent or null, with no title-cased key standing in, is empty (date: the hint
\* when the date key is absent).
C4_NormalizationTotal ==
    OneDictNormalized =>
        LET r == rows.items[1].f
            out == all_rows[1]
        IN  /\ Len(all_rows) = 1
            /\ DOMAIN out = HeaderSet
            /\ \A h \in HeaderSet : IsString(out[h])
            /\ \A h \in (HeaderSet \cap DOMAIN r) :
                  /\ r[h].t = "str" => IsTrimOf(out[h], r[h].s)
                  /\ r[h].t = "num" => (AllDigits(out[h]) /\ StrToInt(out[h]) = r[h].n)
            /\ \A h \in HeaderSet :
                  ((h \notin DOMAIN r \/ r[h].t = "null")
                      /\ (TitleKey(h) \notin DOMAIN r \/ r[TitleKey(h)].t = "null")
                      /\ (h # H_date \/ H_date \in DOMAIN r)) => out[h] = <<>>
            /\ (H_date \notin DOMAIN r) => IsTrimOf(out[H_date], date_hint)

\* a row carrying a padded string and a null: 12 keys out, the string trimmed
C4_Witness ==
    /\ OneDictNormalized
    /\ DOMAIN rows.items[1].f = {H_mover, H_notes}
    /\ rows.items[1].f[H_mover] = JStr(StrYesPadded)
    /\ rows.items[1].f[H_notes] = JNull
    /\ all_rows[1][H_mover] = <<"Y","E","S">>
    /\ all_rows[1][H_notes] = <<>>
    /\ Cardinality(DOMAIN all_rows[1]) = 12

(***************************************************************************)
(* The LLM client.  The text of a response is held as its lines: a fence   *)
(* line (``` alone, or ``` followed by a language tag), a line of prose,   *)
(* or one JSON document (however many physical lines it spans, it is one   *)
(* item).  json.loads accepts a text exactly when it is one JSON document. *)
(***************************************************************************)
Fence(tagged) == [k |-> "fence", tagged |-> tagged, v |-> JNull]
Payload(v) == [k |-> "json", tagged |-> FALSE, v |-> v]
Prose == [k |-> "prose", tagged |-> FALSE, v |-> JNull]

\* what requests.post produced: an exception, a non-2xx status, or a 2xx
\* response whose first text block has the given lines ("" is no line)
NetError == [kind |-> "neterr", lines |-> <<>>]
HttpError == [kind |-> "http", lines |-> <<>>]
Ok(lines) == [kind |-> "ok", lines |-> lines]
NoApi == [kind |-> "none", lines |-> <<>>]

\* json.loads(text): ok = FALSE is json.JSONDecodeError
Loads(lines) ==
    IF Len(lines) = 1 /\ lines[1].k = "json"
    THEN [ok |-> TRUE, v |-> lines[1].v]
    ELSE [ok |-> FALSE, v |-> JNull]

\* mutant of StripFence: the closing fence is left in place
StripFence_OpenOnly(lines) ==
    IF Len(lines) > 0 /\ lines[1].k = "fence" THEN Tail(lines) ELSE lines

\* lines 261-267 of extract_voting_record_csv.py: when the text starts with
\* ```, drop the first line, then a last line that is ``` alone
StripFence(lines) ==
    IF Len(lines) > 0 /\ lines[1].k = "fence"
    THEN LET rest == Tail(lines)
         IN  IF Len(rest) > 0 /\ rest[Len(rest)].k = "fence" /\ ~rest[Len(rest)].tagged
             THEN SubSeq(rest, 1, Len(rest) - 1)
             ELSE rest
    ELSE lines

K_rows == <<"r","o","w","s">>
K_votes == <<"v","o","t","e","s">>
K_ayes == <<"a","y","e","s">>
K_nays == <<"n","a","y","s">>
K_absent == <<"a","b","s","e","n","t">>
K_motion == <<"m","o","t","i","o","n">>
K_summary == <<"s","u","m","m","a","r","y">>
K_proposer == <<"p","r","o","p","o","s","e","r">>
K_seconder == <<"s","e","c","o","n","d","e","r">>
K_result == <<"r","e","s","u","l","t">>

EmptyList == JList(<<>>)

\* x or y
OrElse(x, y) == IF Truthy(x) THEN x ELSE y

\* the outcome of one call of a function of the run:
\*   exit      - SystemExit left the function
\*   raised    - an Exception left the function
\*   requested - requests.post was called
\*   value     - the value returned
Returned(v) == [exit |-> FALSE, raised |-> FALSE, requested |-> TRUE, value |-> v]
Raised == [exit |-> FALSE, raised |-> TRUE, requested |-> TRUE, value |-> JNull]
NoKeyExit == [exit |-> TRUE, raised |-> FALSE, requested |-> FALSE, value |-> JNull]

\* mutant of ParsedRows: a value of the wrong shape is passed on as it is
ParsedRows_AnyShape(parsed) == Returned(parsed)

\* lines 269-273 of extract_voting_record_csv.py: a list is returned as it
\* is, else parsed.get("rows") or []; a value without get raises
ParsedRows(parsed) ==
    IF parsed.t = "list" THEN Returned(parsed)
    ELSE IF parsed.t = "obj" THEN Returned(OrElse(Get(parsed, K_rows), EmptyList))
    ELSE Raised

\* analyze_with_anthropic of extract_voting_record_csv.py
analyze_with_anthropic_csv(key, api) ==
    IF ~key THEN NoKeyExit
    ELSE IF api.kind # "ok" THEN Raised
    ELSE IF Len(api.lines) = 0 THEN Returned(EmptyList)
    ELSE LET parsed == Loads(StripFence(api.lines))
         IN  IF parsed.ok THEN ParsedRows(parsed.v) ELSE Raised

\* analyze_with_anthropic of scan_trustees_votes.py: no fence handling
analyze_with_anthropic_scan(key, api) ==
    IF ~key THEN NoKeyExit
    ELSE IF api.kind # "ok" THEN Raised
    ELSE LET parsed == Loads(api.lines)
         IN  IF parsed.ok THEN Returned(parsed.v) ELSE Raised

(***************************************************************************)
(* analysis_to_vote_records of scan_trustees_votes.py                      *)
(***************************************************************************)
BOARD_OF_TRUSTEES_MEMBERS ==
    <<<<"M","a","y","o","r"," ","R","o","s","s","i">>,
      <<"B","a","s","k","i","n">>,
      <<"F","i","t","z","p","a","t","r","i","c","k">>,
      <<"K","o","r","m","o","s">>,
      <<"V","a","n","H","a","l","l">>>>

StrAye == <<"A","y","e">>
StrNo == <<"N","o">>
StrAbsent == <<"A","b","s","e","n","t">>
StrNotFound == <<"N","o","t"," ","F","o","u","n","d">>
StrPassed == <<"P","a","s","s","e","d">>
StrFailed == <<"F","a","i","l","e","d">>
StrCategory == <<"B","o","a","r","d"," ","o","f"," ","T","r","u","s","t","e","e","s">>
StrLocalBot == <<"l","o","c","a","l","-","b","o","t","-">>
StrLocal == <<"l","o","c","a","l","-">>
StrUrlPrefix == <<"/","d","o","c","u","m","e","n","t","s","/","b","o","a","r","d","_","o","f","_","t","r","u","s","t","e","e","s","_","d","o","c","u","m","e","n","t","s","/">>

\* v.get(key) or [], replaced by [] when it is not a list
NameList(v, key) ==
    LET a == OrElse(Get(v, key), EmptyList) IN IF a.t = "list" THEN a.items ELSE <<>>

\* match(arr, name): some string of arr contains the member name or is
\* contained in it, letter case ignored
match(arr, name) ==
    \E i \in 1..Len(arr) :
        /\ arr[i].t = "str"
        /\ \/ Contains(Lower(arr[i].s), Lower(name))
           \/ Contains(Lower(name), Lower(arr[i].s))

MemberStatus(v, name) ==
    IF match(NameList(v, K_ayes), name) THEN StrAye
    ELSE IF match(NameList(v, K_nays), name) THEN StrNo
    ELSE IF match(NameList(v, K_absent), name) THEN StrAbsent
    ELSE StrNotFound

\* doc_meta of main for the i-th file (i counts from 0)
DocMeta(i, name, date) ==
    [id |-> StrLocalBot \o IntToStr(i + 1),
     title |-> name,
     date |-> date,
     url |-> StrUrlPrefix \o name]

\* the record appended for the j-th vote v (j counts from 0)
VoteRecord(analysis, v, doc_meta, j) ==
    [id |-> StrLocal \o doc_meta.id \o <<"-">> \o IntToStr(j),
     motion |-> OrElse(Get(v, K_motion), JStr(<<>>)),
     description |-> OrElse(Get(analysis, K_summary), JStr(<<>>)),
     category |-> StrCategory,
     date |-> doc_meta.date,
     proposer |-> OrElse(Get(v, K_proposer), JStr(<<>>)),
     seconder |-> OrElse(Get(v, K_seconder), JStr(<<>>)),
     votes |-> [m \in 1..Len(BOARD_OF_TRUSTEES_MEMBERS) |->
                   [memberName |-> BOARD_OF_TRUSTEES_MEMBERS[m],
                    status |-> MemberStatus(v, BOARD_OF_TRUSTEES_MEMBERS[m])]],
     result |-> IF Get(v, K_result) = JStr(StrFailed) THEN StrFailed ELSE StrPassed,
     url |-> doc_meta.url]

\* mutant of analysis_to_vote_records: the records built before an entry
\* that is not a dict are handed back
analysis_to_vote_records_Partial(analysis, doc_meta) ==
    IF analysis.t # "obj" THEN [raised |-> TRUE, out |-> <<>>]
    ELSE LET votes == OrElse(Get(analysis, K_votes), EmptyList)
             items == IterItems(votes)
             good == {n \in 0..Len(items) : \A j \in 1..n : IsDict(items[j])}
             upto == CHOOSE n \in good : \A m \in good : m <= n
         IN  IF ~Iterable(votes) THEN [raised |-> TRUE, out |-> <<>>]
             ELSE [raised |-> FALSE,
                   out |-> [j \in 1..upto |-> VoteRecord(analysis, items[j], doc_meta, j - 1)]]

\* analysis_to_vote_records: raised = an Exception left the function
\* (analysis or an entry of votes has no get, or votes is not iterable)
analysis_to_vote_records(analysis, doc_meta) ==
    IF analysis.t # "obj" THEN [raised |-> TRUE, out |-> <<>>]
    ELSE LET votes == OrElse(Get(analysis, K_votes), EmptyList)
             items == IterItems(votes)
         IN  IF ~Iterable(votes) \/ \E j \in 1..Len(items) : ~IsDict(items[j])
             THEN [raised |-> TRUE, out |-> <<>>]
             ELSE [raised |-> FALSE,
                   out |-> [j \in 1..Len(items) |->
                               VoteRecord(analysis, items[j], doc_meta, j - 1)]]

NoOcr == [status |-> "unavailable", images |-> <<>>]

MinCharsCsv == 50
MinCharsScan == 100

\* mutant of TooShort: the thresholds of the two scripts exchanged
TooShort_Swapped(scr, text) ==
    StripLen(text) < (IF scr = "csv" THEN MinCharsScan ELSE MinCharsCsv)

\* len(pdf_text.strip()) < 50 (extract_voting_record_csv.py) or < 100
\* (scan_trustees_votes.py): the document is skipped
TooShort(scr, text) ==
    StripLen(text) < (IF scr = "csv" THEN MinCharsCsv ELSE MinCharsScan)

(***************************************************************************)
(* Inputs of a whole run: the directory, the command line, the            *)
(* environment, and for each document its PDF, the OCR libraries and the   *)
(* API's answer.                                                           *)
(***************************************************************************)
MaxDocs == 2         \* entries of a generated directory

Name_special_mtg == StrSpecialMtg \o ExtPdf
Name_draft_minutes == StrDraft \o <<"_">> \o StrMinutes \o ExtPdf

Name_bd_mtg_01_02_25 == TokBdMtg \o <<"0","1",".","0","2",".","2","5">> \o ExtPdf

RunPool == {Name_bd_mtg_01_02_25, Name_1_2_2025_minutes, Name_special_mtg, Name_draft_minutes}

RunDirs == {S \in SUBSET RunPool : Cardinality(S) <= MaxDocs}

RunLimits(scr) ==
    IF scr = "csv" THEN {NoLimit, Limit(1)}
    ELSE IF scr = "scan" THEN {Limit(3), Limit(0)}
    ELSE {NoLimit}

Unreadable == [readable |-> FALSE, pages |-> <<>>]
PdfOf(n) == [readable |-> TRUE, pages |-> <<<<Run(" ", 1), Run("a", n), Run("\n", 1)>>>>]

RunPdfs(scr) ==
    IF scr = "csv" THEN {Unreadable, PdfOf(49), PdfOf(50)}
    ELSE {Unreadable, PdfOf(99), PdfOf(100)}

RunOcrs(scr) ==
    IF scr = "csv" THEN {NoOcr, [status |-> "ok", images |-> <<<<Run("b", 60)>>>>]}
    ELSE {NoOcr}

Row_mover == JObj([k \in {H_mover} |-> JStr(Str3a)])
Row_dated == JObj([k \in {H_date, H_notes} |-> JStr(StrYesPadded)])

StrYes == <<"Y","E","S">>
StrAllAyes == <<"A","L","L"," ","A","Y","E","S">>

\* the trustee columns of CSV_HEADERS
TrusteeColumns ==
    {H_mayor_rossi, H_trustee_price_bush, H_trustee_dunkelbarger,
     H_trustee_vandeinse_perez, H_trustee_dubuque}

\* one motion carried unanimously: a row with all 12 fields, and one that
\* leaves the date and the trustees who were away to the caller
Row_unanimous ==
    JObj([k \in HeaderSet |->
        CASE k = H_date -> JStr(StrIsoHint)
          [] k = H_vote_result -> JStr(StrAllAyes)
          [] k \in TrusteeColumns -> JStr(StrYes)
          [] k = H_notes -> JStr(<<>>)
          [] OTHER -> JStr(Str3a)])
Row_unanimous_undated ==
    JObj([k \in {H_section, H_vote_result, H_mayor_rossi, H_trustee_dubuque} |->
        CASE k = H_vote_result -> JStr(StrAllAyes)
          [] k = H_section -> JStr(Str3a)
          [] OTHER -> JStr(StrYes)])

Vote_1 ==
    JObj([k \in {K_motion, K_ayes, K_nays, K_result} |->
        CASE k = K_motion -> JStr(Str3a)
          [] k = K_ayes -> JList(<<JStr(<<"R","O","S","S","I">>), JNum(7)>>)
          [] k = K_nays -> JList(<<JStr(BOARD_OF_TRUSTEES_MEMBERS[4] \o <<" ","J","r">>)>>)
          [] OTHER -> JStr(StrFailed)])

\* a JSON document of the shape each script asks for
GoodValue(scr) ==
    IF scr = "csv"
    THEN JObj([k \in {K_rows} |-> JList(<<Row_mover, Row_dated>>)])
    ELSE JObj([k \in {K_votes, K_summary} |->
                 IF k = K_votes THEN JList(<<Vote_1, JObj(NoFields)>>) ELSE JStr(Str3a)])

\* the JSON documents the API answers with
RunValues(scr) ==
    IF scr = "csv"
    THEN {GoodValue(scr),
          JList(<<Row_dated, JNum(5), Row_mover>>),
          JObj([k \in {K_rows} |-> JList(<<Row_unanimous>>)]),
          JList(<<Row_unanimous_undated>>),
          JObj([k \in {K_rows} |-> JNum(5)]),
          JObj([k \in {K_votes} |-> JList(<<Row_mover>>)]),
          JNum(5)}
    ELSE {GoodValue(scr),
          JObj([k \in {K_votes} |-> JList(<<Vote_1, JNum(5)>>)]),
          JObj([k \in {K_votes} |-> JNum(5)]),
          JObj([k \in {K_rows} |-> JList(<<Vote_1>>)]),
          JList(<<Vote_1>>),
          JNum(5)}

\* what the API does for one request
RunApis(scr) ==
    {NetError, HttpError, Ok(<<>>), Ok(<<Prose>>),
     Ok(<<Fence(TRUE), Payload(GoodValue(scr)), Fence(FALSE)>>),
     Ok(<<Fence(FALSE), Payload(GoodValue(scr)), Fence(TRUE)>>)}
        \cup {Ok(<<Payload(v)>>) : v \in RunValues(scr)}

(***************************************************************************)
(* process_meeting_minutes.py                                              *)
(***************************************************************************)
K_filename == <<"f","i","l","e","n","a","m","e">>

\* PDF_DIR.glob("*.pdf"): the names ending in ".pdf", letter case kept
IsGlobPdf(n) == Len(n) >= 4 /\ SubSeq(n, Len(n) - 3, Len(n)) = ExtPdf

\* every order in which the directory can list the names of S
Orders(S) ==
    {f \in [1..Cardinality(S) -> S] : \A i, j \in 1..Cardinality(S) : i # j => f[i] # f[j]}

\* mutant of get_pdfs_to_process: the JSON directory is not looked at
get_pdfs_to_process_All(exists, entries, jsons) ==
    IF ~exists THEN {<<>>}
    ELSE Orders({n \in entries : IsGlobPdf(n)})

\* get_pdfs_to_process: the PDFs without a matching <stem>.json, in one of
\* the orders the directory can list them
get_pdfs_to_process(exists, entries, jsons) ==
    IF ~exists THEN {<<>>}
    ELSE Orders({n \in entries : IsGlobPdf(n) /\ Stem(n) \notin DOMAIN jsons})

\* get_pdf_page_count: 0 when the file cannot be opened or parsed
get_pdf_page_count(d) == IF d.readable THEN Len(d.pages) ELSE 0

MaxSinglePassPages == 4

\* the value contains an object, so its text contains "{" and "}"
RECURSIVE HasBrace(_)
HasBrace(v) ==
    \/ v.t = "obj"
    \/ v.t = "list" /\ \E i \in 1..Len(v.items) : HasBrace(v.items[i])

\* text[text.find("{") : text.rfind("}") + 1] for the text of one JSON
\* document with braces: the slice is a JSON document only when all the
\* braces belong to one object
RECURSIVE BraceSlice(_)
BraceSlice(v) ==
    IF v.t = "obj" THEN [ok |-> TRUE, v |-> v]
    ELSE LET with == {i \in 1..Len(v.items) : HasBrace(v.items[i])}
         IN  IF Cardinality(with) = 1
             THEN BraceSlice(v.items[CHOOSE i \in with : TRUE])
             ELSE [ok |-> FALSE, v |-> JNull]

\* the lines of the response that hold a JSON document with braces
BracePayloads(lines) == {i \in 1..Len(lines) : lines[i].k = "json" /\ HasBrace(lines[i].v)}

\* lines 148-157 (and 227-235, 292-300): when the text starts with ```, cut
\* it from its first "{" to its last "}" if it has both; then json.loads
ParseResponse(lines) ==
    IF Len(lines) > 0 /\ lines[1].k = "fence" /\ BracePayloads(lines) # {}
    THEN IF Cardinality(BracePayloads(lines)) = 1
         THEN BraceSlice(lines[CHOOSE i \in BracePayloads(lines) : TRUE].v)
         ELSE [ok |-> FALSE, v |-> JNull]
    ELSE Loads(lines)

\* client.messages.create(...) and the parse of its answer:
\* raised = the except clauses caught an exception, the function returns None
Extract(api) ==
    IF api.kind # "ok" THEN [raised |-> TRUE, v |-> JNull]
    ELSE [raised |-> ~ParseResponse(api.lines).ok, v |-> ParseResponse(api.lines).v]

\* the suffix of the files of JSON_DIR
ExtJson == <<".", "j", "s", "o", "n">>

\* mutant of Merge: the first pass wins on a key that both passes carry
Merge_FirstWins(name, structure_data, detail_data) ==
    JObj([k \in {K_filename} \cup DOMAIN structure_data.f \cup DOMAIN detail_data.f |->
            IF k \in DOMAIN structure_data.f THEN structure_data.f[k]
            ELSE IF k \in DOMAIN detail_data.f THEN detail_data.f[k]
            ELSE JStr(Stem(name) \o ExtJson)])

\* {"filename": f"{pdf_path.stem}.json", **structure_data, **detail_data}
Merge(name, structure_data, detail_data) ==
    JObj([k \in {K_filename} \cup DOMAIN structure_data.f \cup DOMAIN detail_data.f |->
            IF k \in DOMAIN detail_data.f THEN detail_data.f[k]
            ELSE IF k \in DOMAIN structure_data.f THEN structure_data.f[k]
            ELSE JStr(Stem(name) \o ExtJson)])

\* the ** of a value that is not a dict raises TypeError
CanMerge(structure_data, detail_data) == IsDict(structure_data) /\ IsDict(detail_data)

\* json.dump(data, f) into JSON_DIR / (stem + ".json")
save_json(jsons, data, name) ==
    [s \in DOMAIN jsons \cup {Stem(name)} |-> IF s = Stem(name) THEN data ELSE jsons[s]]

(***************************************************************************)
(* A whole run of main.                                                    *)
(***************************************************************************)
OutNames(scr) ==
    IF scr = "csv" THEN {"OUT_CSV", "PUBLIC_CSV"}
    ELSE IF scr = "scan" THEN {"OUT_FILE"}
    ELSE {}

\* an output file: whether it exists, its header line (CSV only), its
\* records, and how many times this run has written it
AbsentFile == [exists |-> FALSE, header |-> <<>>, records |-> <<>>, writes |-> 0]
StaleFile == [exists |-> TRUE, header |-> <<>>, records |-> <<"stale">>, writes |-> 0]

\* mutant of Written: the file is opened for appending
Written_Append(file, header, records) ==
    [exists |-> TRUE, header |-> header, records |-> file.records \o records,
     writes |-> file.writes + 1]

\* open(path, "w") followed by the writer: the previous content is gone
Written(file, header, records) ==
    [exists |-> TRUE, header |-> header, records |-> records, writes |-> file.writes + 1]

\* the variables of process_meeting_minutes.py when another script runs
PmmIdle == json_dir = <<>> /\ answer = <<>> /\ successful = 0 /\ failed = 0

Name_minutes_PDF == TokMinutes \o ExtPDF

PmmPool == {Name_bd_mtg_03_15_24, Name_special_mtg, Name_minutes_PDF}

RunDirsOf(scr) ==
    IF scr = "pmm" THEN SUBSET PmmPool
    ELSE IF scr = "dl" THEN {{}}
    ELSE RunDirs

\* the JSON files a previous run left behind
OldData == JObj([k \in {K_filename} |-> JStr(<<"o","l","d">>)])
OldJsons(scr, entries) ==
    IF scr = "pmm" THEN {[s \in S |-> OldData] : S \in SUBSET {Stem(n) : n \in entries}}
    ELSE {<<>>}

RunInit ==
    /\ script \in {"csv", "scan", "pmm", "dl"}
    /\ pc = "start"
    /\ dir_exists \in (IF script = "dl" THEN {TRUE} ELSE BOOLEAN)
    /\ dir \in (IF dir_exists THEN RunDirsOf(script) ELSE {{}})
    /\ include_all \in (IF script = "csv" THEN BOOLEAN ELSE {FALSE})
    /\ limit \in RunLimits(script)
    /\ files = <<>>
    /\ DateIdle
    /\ TextIdle
    /\ NormIdle
    /\ key_set \in (IF script = "dl" THEN {TRUE} ELSE BOOLEAN)
    /\ run = 1
    /\ idx = 0
    /\ resp = <<>>
    /\ log = <<>>
    /\ out_files \in {[f \in OutNames(script) |-> p] : p \in {AbsentFile, StaleFile}}
    /\ exit_code = -1
    /\ diag = {}
    /\ json_dir \in OldJsons(script, dir)
    /\ answer = <<>>
    /\ successful = 0
    /\ failed = 0
    /\ EnvIdle

\* sys.exit(1) after a message on standard error
ExitWith(message) ==
    /\ pc' = "exited"
    /\ exit_code' = 1
    /\ diag' = diag \cup {message}

\* main: DOCS_DIR does not exist
NoDocsDir ==
    /\ script \in {"csv", "scan"}
    /\ pc = "start"
    /\ ~dir_exists
    /\ ExitWith("no_dir")
    /\ UNCHANGED <<script, envVars, dateVars, locVars, textVars, normVars, key_set, run, idx, resp, log,
                   out_files, pmmVars>>

\* main of extract_voting_record_csv.py: get_minute_pdfs returned nothing
CsvNoFiles ==
    /\ script = "csv"
    /\ pc = "start"
    /\ dir_exists
    /\ get_minute_pdfs(script, dir_exists, dir, limit, include_all) = <<>>
    /\ ExitWith("no_files")
    /\ UNCHANGED <<script, envVars, dateVars, locVars, textVars, normVars, key_set, run, idx, resp, log,
                   out_files, pmmVars>>

\* main: files = get_minute_pdfs(...), all_rows = []; scan_trustees_votes.py
\* goes on with an empty list too
FoundFiles ==
    /\ script \in {"csv", "scan"}
    /\ pc = "start"
    /\ dir_exists
    /\ files' = get_minute_pdfs(script, dir_exists, dir, limit, include_all)
    /\ script = "csv" => files' # <<>>
    /\ pc' = "loop"
    /\ UNCHANGED <<script, envVars, dateVars, textVars, normVars, dir_exists, dir, include_all,
                   limit, runVars, pmmVars>>

\* analyze_with_anthropic of the running script
analyze_with_anthropic(scr, key, api) ==
    IF scr = "csv" THEN analyze_with_anthropic_csv(key, api)
    ELSE analyze_with_anthropic_scan(key, api)

\* a request counts as sent unless the client had no key to send it with
Sent(api) == IF api.kind \in {"none", "autherr"} THEN 0 ELSE 1

\* the requests sent among the calls of one document
Requests(apis) == Cardinality({i \in 1..Len(apis) : Sent(apis[i]) = 1})

\* for i, name in enumerate(files): date_hint = date_from_filename(name)
NextFile ==
    /\ script \in {"csv", "scan"}
    /\ pc = "loop"
    /\ idx < Len(files)
    /\ filename' = files[idx + 1]
    /\ date_hint' = date_from_filename(script, files[idx + 1])
    /\ pc' = "extract"
    /\ UNCHANGED <<script, envVars, locVars, textVars, normVars, runVars, pmmVars>>

\* mutant of EndDoc: a document whose request failed is taken once more
EndDoc_Retry(outcome, n, apis, out) ==
    /\ all_rows' = all_rows \o out
    /\ log' = Append(log, [name |-> filename, date |-> date_hint, n |-> n,
                           requests |-> Requests(apis), apis |-> apis,
                           outcome |-> outcome, added |-> Len(out)])
    /\ idx' = IF outcome = "error" /\ Requests(apis) = 1 /\ Len(log) = idx
              THEN idx ELSE idx + 1
    /\ pc' = "loop"
    /\ filename' = <<>>
    /\ date_hint' = <<>>
    /\ pdf' = [readable |-> TRUE, pages |-> <<>>]
    /\ ocr' = NoOcr
    /\ pdf_text' = <<>>
    /\ resp' = <<>>
    /\ rows' = JNull
    /\ UNCHANGED <<script, envVars, locVars, key_set, run, out_files, exit_code, diag, pmmVars>>

\* the end of one pass through the loop body: by continue, by the end of
\* the try body, or by the except clause.  The locals of the pass are dead.
EndDoc(outcome, n, apis, out) ==
    /\ all_rows' = all_rows \o out
    /\ log' = Append(log, [name |-> filename, date |-> date_hint, n |-> n,
                           requests |-> Requests(apis), apis |-> apis,
                           outcome |-> outcome, added |-> Len(out)])
    /\ idx' = idx + 1
    /\ pc' = "loop"
    /\ filename' = <<>>
    /\ date_hint' = <<>>
    /\ pdf' = [readable |-> TRUE, pages |-> <<>>]
    /\ ocr' = NoOcr
    /\ pdf_text' = <<>>
    /\ resp' = <<>>
    /\ rows' = JNull
    /\ UNCHANGED <<script, envVars, locVars, key_set, run, out_files, exit_code, diag, pmmVars>>

\* extract_pdf_text raises (PdfReader cannot read the file): except Exception
ExtractRaises ==
    /\ script \in {"csv", "scan"}
    /\ pc = "extract"
    /\ \E d \in RunPdfs(script) :
          /\ ~d.readable
          /\ EndDoc("error", -1, <<>>, <<>>)

\* too little text: "Skipped", continue
ExtractShort ==
    /\ script \in {"csv", "scan"}
    /\ pc = "extract"
    /\ \E d \in RunPdfs(script), o \in RunOcrs(script) :
          /\ d.readable
          /\ TooShort(script, extract_pdf_text(script, d, o))
          /\ EndDoc("skipped", StripLen(extract_pdf_text(script, d, o)), <<>>, <<>>)

\* pdf_text = extract_pdf_text(file_path), long enough to be analyzed
ExtractOk ==
    /\ script \in {"csv", "scan"}
    /\ pc = "extract"
    /\ \E d \in RunPdfs(script), o \in RunOcrs(script) :
          /\ d.readable
          /\ ~TooShort(script, extract_pdf_text(script, d, o))
          /\ pdf' = d
          /\ ocr' = o
          /\ pdf_text' = extract_pdf_text(script, d, o)
    /\ pc' = "analyze"
    /\ UNCHANGED <<script, envVars, dateVars, locVars, normVars, runVars, pmmVars>>

\* analyze_with_anthropic raises SystemExit: the key is not set
AnalyzeNoKey ==
    /\ script \in {"csv", "scan"}
    /\ pc = "analyze"
    /\ analyze_with_anthropic(script, key_set, NoApi).exit
    /\ ExitWith("no_key")
    /\ UNCHANGED <<script, envVars, dateVars, locVars, textVars, normVars, key_set, run, idx, resp, log,
                   out_files, pmmVars>>

\* analyze_with_anthropic raises an Exception: except Exception
AnalyzeRaises ==
    /\ script \in {"csv", "scan"}
    /\ pc = "analyze"
    /\ \E api \in RunApis(script) :
          /\ analyze_with_anthropic(script, key_set, api).raised
          /\ EndDoc("error", StripLen(pdf_text), <<api>>, <<>>)

\* rows = analyze_with_anthropic(...) / analysis = analyze_with_anthropic(...)
AnalyzeReturns ==
    /\ script \in {"csv", "scan"}
    /\ pc = "analyze"
    /\ \E api \in RunApis(script) :
          /\ ~analyze_with_anthropic(script, key_set, api).exit
          /\ ~analyze_with_anthropic(script, key_set, api).raised
          /\ resp' = <<api>>
          /\ rows' = analyze_with_anthropic(script, key_set, api).value
    /\ pc' = "convert"
    /\ UNCHANGED <<script, envVars, dateVars, locVars, textVars, all_rows, key_set, run, idx, log,
                   out_files, exit_code, diag, pmmVars>>

\* extract_voting_record_csv.py: "for r in rows" raises, except Exception
CsvRowsRaise ==
    /\ script = "csv"
    /\ pc = "convert"
    /\ RowsLoop(rows, date_hint).raised
    /\ EndDoc("error", StripLen(pdf_text), resp, <<>>)

\* extract_voting_record_csv.py, lines 310-324: one row_dict per dict entry
CsvRowsAdded ==
    /\ script = "csv"
    /\ pc = "convert"
    /\ ~RowsLoop(rows, date_hint).raised
    /\ EndDoc("added", StripLen(pdf_text), resp, RowsLoop(rows, date_hint).out)

\* scan_trustees_votes.py: analysis_to_vote_records raises, except Exception
ScanRecordsRaise ==
    /\ script = "scan"
    /\ pc = "convert"
    /\ analysis_to_vote_records(rows, DocMeta(idx, filename, date_hint)).raised
    /\ EndDoc("error", StripLen(pdf_text), resp, <<>>)

\* scan_trustees_votes.py, lines 244-245: all_votes.extend(records)
ScanRecordsAdded ==
    /\ script = "scan"
    /\ pc = "convert"
    /\ ~analysis_to_vote_records(rows, DocMeta(idx, filename, date_hint)).raised
    /\ EndDoc("added", StripLen(pdf_text), resp,
              analysis_to_vote_records(rows, DocMeta(idx, filename, date_hint)).out)

\* extract_voting_record_csv.py, lines 329-333: OUT_CSV is written
CsvWriteOut ==
    /\ script = "csv"
    /\ pc = "loop"
    /\ idx = Len(files)
    /\ out_files' = [out_files EXCEPT
                        !["OUT_CSV"] = Written(@, CSV_HEADERS, all_rows)]
    /\ pc' = "copy"
    /\ UNCHANGED <<script, envVars, dateVars, locVars, textVars, normVars, key_set, run, idx, resp, log,
                   exit_code, diag, pmmVars>>

\* extract_voting_record_csv.py, lines 334-341: PUBLIC_CSV is written
CsvWritePublic ==
    /\ script = "csv"
    /\ pc = "copy"
    /\ out_files' = [out_files EXCEPT
                        !["PUBLIC_CSV"] = Written(@, CSV_HEADERS, all_rows)]
    /\ pc' = "done"
    /\ exit_code' = 0
    /\ UNCHANGED <<script, envVars, dateVars, locVars, textVars, normVars, key_set, run, idx, resp, log,
                   diag, pmmVars>>

\* scan_trustees_votes.py, lines 249-251: OUT_FILE is written
ScanWrite ==
    /\ script = "scan"
    /\ pc = "loop"
    /\ idx = Len(files)
    /\ out_files' = [out_files EXCEPT !["OUT_FILE"] = Written(@, <<>>, all_rows)]
    /\ pc' = "done"
    /\ exit_code' = 0
    /\ UNCHANGED <<script, envVars, dateVars, locVars, textVars, normVars, key_set, run, idx, resp, log,
                   diag, pmmVars>>

\* an uncaught exception: traceback on standard error, exit status 1
Crash ==
    /\ pc' = "crashed"
    /\ exit_code' = 1
    /\ diag' = diag \cup {"traceback"}

\* return from main: the interpreter exits with status 0
ReturnFromMain ==
    /\ pc' = "done"
    /\ exit_code' = 0

\* client = Anthropic() with no key: the SDK versions that check the key
\* in the constructor raise at import; the others fail each request
PmmImportFails ==
    /\ script = "pmm"
    /\ pc = "start"
    /\ ~key_set
    /\ Crash
    /\ UNCHANGED <<script, envVars, dateVars, locVars, textVars, normVars, key_set, run, idx, resp, log,
                   out_files, pmmVars>>

\* get_pdfs_to_process prints "Error: PDF directory not found" and returns
\* []; main prints "No PDFs to process" and returns
PmmNoDir ==
    /\ script = "pmm"
    /\ pc = "start"
    /\ ~dir_exists
    /\ diag' = diag \cup {"no_pdf_dir"}
    /\ ReturnFromMain
    /\ UNCHANGED <<script, envVars, dateVars, locVars, textVars, normVars, key_set, run, idx, resp, log,
                   out_files, pmmVars>>

\* no PDF, or every PDF has its JSON: main returns
PmmNothingToDo ==
    /\ script = "pmm"
    /\ pc = "start"
    /\ dir_exists
    /\ get_pdfs_to_process(dir_exists, dir, json_dir) = {<<>>}
    /\ ReturnFromMain
    /\ UNCHANGED <<script, envVars, dateVars, locVars, textVars, normVars, key_set, run, idx, resp, log,
                   out_files, diag, pmmVars>>

\* pdfs_to_process = get_pdfs_to_process(), not empty
PmmList ==
    /\ script = "pmm"
    /\ pc = "start"
    /\ dir_exists
    /\ files' \in get_pdfs_to_process(dir_exists, dir, json_dir)
    /\ files' # <<>>
    /\ pc' = "confirm"
    /\ UNCHANGED <<script, envVars, dateVars, textVars, normVars, dir_exists, dir, include_all,
                   limit, runVars, pmmVars>>

PmmAnswers == {<<"y">>, <<"Y">>, <<"n">>, <<>>, <<"y","e","s">>}

\* response = input(...); response.lower() != 'y': "Cancelled."
PmmCancel ==
    /\ script = "pmm"
    /\ pc = "confirm"
    /\ \E a \in PmmAnswers :
          /\ Lower(a) # <<"y">>
          /\ answer' = a
    /\ ReturnFromMain
    /\ UNCHANGED <<script, envVars, dateVars, locVars, textVars, normVars, key_set, run, idx, resp, log,
                   out_files, diag, json_dir, successful, failed>>

\* mutant of PmmConfirm: the loop starts whatever the answer
PmmConfirm_Any ==
    /\ script = "pmm"
    /\ pc = "confirm"
    /\ \E a \in PmmAnswers : answer' = a
    /\ pc' = "loop"
    /\ UNCHANGED <<script, envVars, dateVars, locVars, textVars, normVars, runVars,
                   json_dir, successful, failed>>

\* response.lower() == 'y': successful = 0, failed = 0
PmmConfirm ==
    /\ script = "pmm"
    /\ pc = "confirm"
    /\ \E a \in PmmAnswers :
          /\ Lower(a) = <<"y">>
          /\ answer' = a
    /\ pc' = "loop"
    /\ UNCHANGED <<script, envVars, dateVars, locVars, textVars, normVars, runVars,
                   json_dir, successful, failed>>

PmmPdfs ==
    {Unreadable} \cup
    {[readable |-> TRUE, pages |-> [i \in 1..n |-> <<>>]] :
        n \in {0, MaxSinglePassPages, MaxSinglePassPages + 1}}

\* extract_meeting_data: page_count = get_pdf_page_count(pdf_path)
PmmNextFile ==
    /\ script = "pmm"
    /\ pc = "loop"
    /\ idx < Len(files)
    /\ filename' = files[idx + 1]
    /\ pdf' \in PmmPdfs
    /\ pc' = "read"
    /\ UNCHANGED <<script, envVars, date_hint, locVars, ocr, pdf_text, normVars, runVars, pmmVars>>

\* read_pdf_as_base64 raises: open() fails for a file that could not be
\* opened for the page count either; nothing catches the exception
PmmReadFails ==
    /\ script = "pmm"
    /\ pc = "read"
    /\ ~pdf.readable
    /\ Crash
    /\ UNCHANGED <<script, envVars, dateVars, locVars, textVars, normVars, key_set, run, idx, resp, log,
                   out_files, pmmVars>>

\* pdf_base64 = read_pdf_as_base64(pdf_path), in extract_single_pass when
\* page_count <= 4 and in extract_chunked otherwise
PmmRead ==
    /\ script = "pmm"
    /\ pc = "read"
    /\ pc' = IF get_pdf_page_count(pdf) <= MaxSinglePassPages THEN "single" ELSE "pass1"
    /\ UNCHANGED <<script, envVars, dateVars, locVars, textVars, normVars, runVars, pmmVars>>

K_a == <<"a">>
K_b == <<"b">>
K_k == <<"k">>

Obj_first == JObj([k \in {K_a, K_k} |-> IF k = K_a THEN JNum(1) ELSE JStr(Str3a)])
Obj_second ==
    JObj([k \in {K_b, K_k, K_filename} |-> IF k = K_b THEN JNum(2) ELSE JStr(StrYesPadded)])

\* what the API does for the request of a single pass or of pass 1
PmmApis ==
    {NetError, Ok(<<Prose>>),
     Ok(<<Payload(Obj_first)>>),
     Ok(<<Payload(JObj(NoFields))>>),
     Ok(<<Payload(JList(<<Obj_first>>))>>),
     Ok(<<Fence(TRUE), Payload(JList(<<Obj_first>>)), Fence(FALSE)>>),
     Ok(<<Fence(TRUE), Payload(JList(<<Obj_first, Obj_second>>)), Fence(FALSE)>>)}

\* what the API does for the request of pass 2
PmmApis2 ==
    {NetError, Ok(<<Payload(Obj_second)>>), Ok(<<Payload(JNum(5))>>),
     Ok(<<Fence(FALSE), Payload(JObj(NoFields)), Fence(FALSE), Prose>>)}

\* without a key every request fails before it is sent
ApisWithKey(apis) == IF key_set THEN apis ELSE {[kind |-> "autherr", lines |-> <<>>]}

\* mutant of PmmEndDoc: a document that gave no data is not counted
PmmEndDoc_Uncounted(outcome, apis, saved) ==
    /\ successful' = IF saved THEN successful + 1 ELSE successful
    /\ failed' = IF saved \/ outcome = "nodata" THEN failed ELSE failed + 1
    /\ log' = Append(log, [name |-> filename, date |-> <<>>, n |-> get_pdf_page_count(pdf),
                           requests |-> Requests(apis), apis |-> apis,
                           outcome |-> outcome, added |-> IF saved THEN 1 ELSE 0])
    /\ idx' = idx + 1
    /\ pc' = "loop"
    /\ filename' = <<>>
    /\ pdf' = [readable |-> TRUE, pages |-> <<>>]
    /\ resp' = <<>>
    /\ rows' = JNull
    /\ UNCHANGED <<script, envVars, date_hint, locVars, ocr, pdf_text, all_rows, key_set, run, out_files,
                   exit_code, diag, answer>>

\* the end of one pass through the loop of main: one counter goes up
PmmEndDoc(outcome, apis, saved) ==
    /\ successful' = IF saved THEN successful + 1 ELSE successful
    /\ failed' = IF saved THEN failed ELSE failed + 1
    /\ log' = Append(log, [name |-> filename, date |-> <<>>, n |-> get_pdf_page_count(pdf),
                           requests |-> Requests(apis), apis |-> apis,
                           outcome |-> outcome, added |-> IF saved THEN 1 ELSE 0])
    /\ idx' = idx + 1
    /\ pc' = "loop"
    /\ filename' = <<>>
    /\ pdf' = [readable |-> TRUE, pages |-> <<>>]
    /\ resp' = <<>>
    /\ rows' = JNull
    /\ UNCHANGED <<script, envVars, date_hint, locVars, ocr, pdf_text, all_rows, key_set, run, out_files,
                   exit_code, diag, answer>>

\* extract_single_pass returns None: the call or json.loads raised
PmmSingleFails ==
    /\ script = "pmm"
    /\ pc = "single"
    /\ \E api \in ApisWithKey(PmmApis) :
          /\ Extract(api).raised
          /\ PmmEndDoc("error", <<api>>, FALSE)
    /\ UNCHANGED json_dir

\* extract_single_pass returns meeting_data
PmmSingleOk ==
    /\ script = "pmm"
    /\ pc = "single"
    /\ \E api \in ApisWithKey(PmmApis) :
          /\ ~Extract(api).raised
          /\ resp' = <<api>>
          /\ rows' = Extract(api).v
    /\ pc' = "save"
    /\ UNCHANGED <<script, envVars, dateVars, locVars, textVars, all_rows, key_set, run, idx, log,
                   out_files, exit_code, diag, pmmVars>>

\* extract_chunked returns None in pass 1
PmmPass1Fails ==
    /\ script = "pmm"
    /\ pc = "pass1"
    /\ \E api \in ApisWithKey(PmmApis) :
          /\ Extract(api).raised
          /\ PmmEndDoc("error", <<api>>, FALSE)
    /\ UNCHANGED json_dir

\* structure_data = json.loads(structure_text)
PmmPass1Ok ==
    /\ script = "pmm"
    /\ pc = "pass1"
    /\ \E api \in ApisWithKey(PmmApis) :
          /\ ~Extract(api).raised
          /\ resp' = <<api>>
          /\ rows' = Extract(api).v
    /\ pc' = "pass2"
    /\ UNCHANGED <<script, envVars, dateVars, locVars, textVars, all_rows, key_set, run, idx, log,
                   out_files, exit_code, diag, pmmVars>>

\* extract_chunked returns None in pass 2: the call, json.loads or the
\* merge raised
PmmPass2Fails ==
    /\ script = "pmm"
    /\ pc = "pass2"
    /\ \E api \in ApisWithKey(PmmApis2) :
          /\ Extract(api).raised \/ ~CanMerge(rows, Extract(api).v)
          /\ PmmEndDoc("error", Append(resp, api), FALSE)
    /\ UNCHANGED json_dir

\* final_data = {"filename": ..., **structure_data, **detail_data}
PmmPass2Ok ==
    /\ script = "pmm"
    /\ pc = "pass2"
    /\ \E api \in ApisWithKey(PmmApis2) :
          /\ ~Extract(api).raised
          /\ CanMerge(rows, Extract(api).v)
          /\ resp' = Append(resp, api)
          /\ rows' = Merge(filename, rows, Extract(api).v)
    /\ pc' = "save"
    /\ UNCHANGED <<script, envVars, dateVars, locVars, textVars, all_rows, key_set, run, idx, log,
                   out_files, exit_code, diag, pmmVars>>

\* if meeting_data: is false for {}, [], 0, "": failed += 1, nothing saved
PmmNoData ==
    /\ script = "pmm"
    /\ pc = "save"
    /\ ~Truthy(rows)
    /\ PmmEndDoc("nodata", resp, FALSE)
    /\ UNCHANGED json_dir

\* save_json returns False: open() or json.dump raised
PmmSaveFails ==
    /\ script = "pmm"
    /\ pc = "save"
    /\ Truthy(rows)
    /\ PmmEndDoc("unsaved", resp, FALSE)
    /\ UNCHANGED json_dir

\* save_json returns True: successful += 1
PmmSaved ==
    /\ script = "pmm"
    /\ pc = "save"
    /\ Truthy(rows)
    /\ json_dir' = save_json(json_dir, rows, filename)
    /\ PmmEndDoc("saved", resp, TRUE)

\* the summary is printed; main returns
PmmDone ==
    /\ script = "pmm"
    /\ pc = "loop"
    /\ idx = Len(files)
    /\ ReturnFromMain
    /\ UNCHANGED <<script, envVars, dateVars, locVars, textVars, normVars, key_set, run, idx, resp, log,
                   out_files, diag, pmmVars>>

\* the script is started again after a run of main that returned with every
\* document of its work list saved: a new process on the same directories
PmmRunAgain ==
    /\ script = "pmm"
    /\ pc = "done"
    /\ run = 1
    /\ successful = Len(files)
    /\ run' = 2
    /\ pc' = "start"
    /\ files' = <<>>
    /\ idx' = 0
    /\ log' = <<>>
    /\ exit_code' = -1
    /\ diag' = {}
    /\ answer' = <<>>
    /\ successful' = 0
    /\ failed' = 0
    /\ UNCHANGED <<script, envVars, dateVars, dir_exists, dir, include_all, limit, textVars, normVars,
                   key_set, resp, out_files, json_dir>>

(***************************************************************************)
(* download_trustees_pdfs.py: the download loop.  It reads no key and      *)
(* makes the documents folder when it is missing.                          *)
(***************************************************************************)
\* the file names of the pdf_url column of the rows kept from the CSV, in
\* the order of the file; a URL can be listed twice
DlLists == SeqsUpTo({Name_special_mtg, Name_minutes_PDF}, MaxDocs)

\* open('bspa-event-pdfs-2025-2026.csv') raises: nothing catches it
DlNoCsv ==
    /\ script = "dl"
    /\ pc = "start"
    /\ Crash
    /\ UNCHANGED <<script, envVars, dateVars, locVars, textVars, normVars, key_set, run, idx, resp, log,
                   out_files, pmmVars>>

\* pdf_data = the rows of the Board of Trustees meetings; successful = 0,
\* failed = 0
DlList ==
    /\ script = "dl"
    /\ pc = "start"
    /\ files' \in DlLists
    /\ pc' = "loop"
    /\ UNCHANGED <<script, envVars, dateVars, textVars, normVars, dir_exists, dir, include_all,
                   limit, runVars, pmmVars>>

\* the end of one pass through the download loop: one counter goes up
DlEndItem(outcome, api, saved) ==
    /\ successful' = IF saved THEN successful + 1 ELSE successful
    /\ failed' = IF saved THEN failed ELSE failed + 1
    /\ log' = Append(log, [name |-> files[idx + 1], date |-> <<>>, n |-> 0,
                           requests |-> 1, apis |-> <<api>>,
                           outcome |-> outcome, added |-> IF saved THEN 1 ELSE 0])
    /\ idx' = idx + 1
    /\ UNCHANGED <<script, envVars, pc, dateVars, locVars, textVars, normVars, key_set, run, resp,
                   out_files, exit_code, diag, json_dir, answer>>

\* requests.get or raise_for_status raises, or the file cannot be written:
\* failed += 1
DlFails ==
    /\ script = "dl"
    /\ pc = "loop"
    /\ idx < Len(files)
    /\ \E api \in {NetError, HttpError, Ok(<<>>)} : DlEndItem("error", api, FALSE)

\* the content is written to the file: successful += 1
DlSaved ==
    /\ script = "dl"
    /\ pc = "loop"
    /\ idx < Len(files)
    /\ DlEndItem("saved", Ok(<<>>), TRUE)

\* the summary is printed; the script ends
DlDone ==
    /\ script = "dl"
    /\ pc = "loop"
    /\ idx = Len(files)
    /\ ReturnFromMain
    /\ UNCHANGED <<script, envVars, dateVars, locVars, textVars, normVars, key_set, run, idx, resp, log,
                   out_files, diag, pmmVars>>

Next ==
    \/ NoDocsDir
    \/ CsvNoFiles
    \/ FoundFiles
    \/ NextFile
    \/ ExtractRaises
    \/ ExtractShort
    \/ ExtractOk
    \/ AnalyzeNoKey
    \/ AnalyzeRaises
    \/ AnalyzeReturns
    \/ CsvRowsRaise
    \/ CsvRowsAdded
    \/ ScanRecordsRaise
    \/ ScanRecordsAdded
    \/ CsvWriteOut
    \/ CsvWritePublic
    \/ ScanWrite
    \/ PmmImportFails
    \/ PmmNoDir
    \/ PmmNothingToDo
    \/ PmmList
    \/ PmmCancel
    \/ PmmConfirm
    \/ PmmNextFile
    \/ PmmReadFails
    \/ PmmRead
    \/ PmmSingleFails
    \/ PmmSingleOk
    \/ PmmPass1Fails
    \/ PmmPass1Ok
    \/ PmmPass2Fails
    \/ PmmPass2Ok
    \/ PmmNoData
    \/ PmmSaveFails
    \/ PmmSaved
    \/ PmmDone
    \/ PmmRunAgain
    \/ DlNoCsv
    \/ DlList
    \/ DlFails
    \/ DlSaved
    \/ DlDone

Spec == RunInit /\ [][Next]_vars


(***************************************************************************)
(* Properties of a whole run.                                              *)
(***************************************************************************)
\* the process has ended
Terminated == pc \in {"done", "exited", "crashed"}

\* file i of the run failed: its try block ended in the except clause, or
\* an exception raised while the file was being processed ended the run
FileFailed(i) ==
    \/ i <= Len(log) /\ log[i].outcome = "error"
    \/ pc = "crashed" /\ i = idx + 1 /\ filename = files[i]

\* every output file of the script has been written by this run
OutputWritten == \A f \in DOMAIN out_files : out_files[f].writes >= 1

\* C1 (as stated): in each of the three scripts, with the directory and the
\* key in place, when the processing of a file fails every later file is
\* still processed and the run ends normally with its output written.
C1_Original ==
    (Terminated /\ dir_exists /\ key_set)
        => \A i \in 1..Len(files) :
              FileFailed(i) => /\ \A j \in (i + 1)..Len(files) : j <= Len(log)
                               /\ OutputWritten

\* C1, the part that holds: in extract_voting_record_csv.py and
\* scan_trustees_votes.py a run that has the directory and the key processes
\* every file and writes its output, whichever files failed.
C1_CsvScan ==
    (script \in {"csv", "scan"} /\ Terminated /\ dir_exists /\ key_set /\ files # <<>>)
        => (pc = "done" /\ Len(log) = Len(files) /\ OutputWritten)

\* C2 (as stated): a run started without the documents directory or without
\* the API key ends with a non-zero exit status and a diagnostic message.
C2_Original ==
    (Terminated /\ (~dir_exists \/ ~key_set)) => (exit_code # 0 /\ diag # {})


\* the JSON document a script reads in the text of a response: the text
\* itself, after extract_voting_record_csv.py has taken a fence off
ResponseJson(scr, lines) == IF scr = "csv" THEN Loads(StripFence(lines)) ELSE Loads(lines)

\* the shapes the scripts ask for: a list, or an object with "rows"; an
\* object whose "votes" is a list of objects
RightShape(scr, v) ==
    IF scr = "csv" THEN v.t = "list" \/ (IsDict(v) /\ K_rows \in DOMAIN v.f)
    ELSE /\ IsDict(v)
         /\ K_votes \in DOMAIN v.f
         /\ v.f[K_votes].t = "list"
         /\ \A j \in 1..Len(v.f[K_votes].items) : IsDict(v.f[K_votes].items[j])

\* the API answered the request of log entry e, and its text is not JSON or
\* is JSON of the wrong shape
Garbage(scr, e) ==
    /\ Len(e.apis) = 1
    /\ e.apis[1].kind = "ok"
    /\ \/ ~ResponseJson(scr, e.apis[1].lines).ok
       \/ ~RightShape(scr, ResponseJson(scr, e.apis[1].lines).v)

\* a is a prefix of b
IsPrefix(a, b) == Len(a) <= Len(b) /\ a = SubSeq(b, 1, Len(a))

\* the step ends the processing of a document whose response was garbage
GarbageStep ==
    /\ script \in {"csv", "scan"}
    /\ Len(log') = Len(log) + 1
    /\ Garbage(script, log'[Len(log')])

\* C3: in extract_voting_record_csv.py and scan_trustees_votes.py, the step
\* that ends a document whose response is not JSON or is JSON of the wrong
\* shape adds no record, leaves the accumulated records as they are, and
\* goes on to the next document without ending the process; no step ever
\* removes or changes a record that was accumulated.
C3_GarbageYieldsNothing ==
    [][/\ GarbageStep => /\ all_rows' = all_rows
                         /\ log'[Len(log')].added = 0
                         /\ idx' = idx + 1
                         /\ pc' = "loop"
                         /\ exit_code' = -1
       /\ script \in {"csv", "scan"} => IsPrefix(all_rows, all_rows')]_vars

\* a finished run of two documents: the first gave records, the second
\* answered garbage, and the records of the first are the output
C3_Witness ==
    /\ script \in {"csv", "scan"}
    /\ pc = "done"
    /\ Len(log) = 2
    /\ log[1].added > 0
    /\ Garbage(script, log[2])
    /\ Len(all_rows) = log[1].added
    /\ \A f \in DOMAIN out_files : out_files[f].records = all_rows


\* the records document i of the run gives, from its log entry: what the
\* conversion makes of the value the client returns for the response
DocRecords(scr, i, e) ==
    IF Len(e.apis) # 1 \/ analyze_with_anthropic(scr, TRUE, e.apis[1]).raised THEN <<>>
    ELSE IF scr = "csv"
         THEN RowsLoop(analyze_with_anthropic(scr, TRUE, e.apis[1]).value, e.date).out
         ELSE LET r == analysis_to_vote_records(
                           analyze_with_anthropic(scr, TRUE, e.apis[1]).value,
                           DocMeta(i - 1, e.name, e.date))
              IN  IF r.raised THEN <<>> ELSE r.out

\* the records of documents 1..k, document after document
RECURSIVE RunRecords(_)
RunRecords(k) ==
    IF k = 0 THEN <<>> ELSE RunRecords(k - 1) \o DocRecords(script, k, log[k])

\* the header line of an output file
HeaderOf(scr) == IF scr = "csv" THEN CSV_HEADERS ELSE <<>>

\* C5: in extract_voting_record_csv.py and scan_trustees_votes.py, no output
\* file is written before every document has been processed, none is written
\* twice, and after a completed run each output file holds exactly the
\* records of the run, the documents in sorted name order and each
\* document's records in the order of its response, whatever the file held
\* before.
C5_SingleWholesaleWrite ==
    script \in {"csv", "scan"} =>
        /\ \A f \in DOMAIN out_files :
              /\ out_files[f].writes <= 1
              /\ out_files[f].writes = 0 => out_files[f] \in {AbsentFile, StaleFile}
              /\ out_files[f].writes = 1 =>
                    /\ Len(log) = Len(files)
                    /\ out_files[f] = [exists |-> TRUE, header |-> HeaderOf(script),
                                       records |-> all_rows, writes |-> 1]
        /\ \A i \in 1..Len(log) : log[i].name = files[i]
        /\ \A i, j \in 1..Len(files) : i < j => LexLess(files[i], files[j])
        /\ all_rows = RunRecords(Len(log))
        /\ pc = "done" => OutputWritten

\* a finished run of two documents that both gave records, over output
\* files that held something else before
C5_Witness ==
    /\ script \in {"csv", "scan"}
    /\ pc = "done"
    /\ Len(log) = 2
    /\ log[1].added > 0
    /\ log[2].added > 0
    /\ DocRecords(script, 1, log[1]) # DocRecords(script, 2, log[2])
    /\ \A f \in DOMAIN out_files : out_files[f].records = all_rows /\ out_files[f].writes = 1


(***************************************************************************)
(* One document from end to end.                                           *)
(***************************************************************************)
\* a well-formed row of a motion carried unanimously at the meeting of
\* bd._mtg._01.02.25.pdf: vote_result is ALL AYES, the date is that of the
\* meeting when the row gives one, every trustee column it gives is YES
UnanimousRow(r) ==
    /\ IsDict(r)
    /\ Get(r, H_vote_result) = JStr(StrAllAyes)
    /\ H_date \in DOMAIN r.f => r.f[H_date] = JStr(StrIsoHint)
    /\ \A h \in TrusteeColumns : h \in DOMAIN r.f => r.f[h] = JStr(StrYes)
    /\ \E h \in TrusteeColumns : h \in DOMAIN r.f

\* the one row of a successful response that holds exactly one row, as a
\* list or under "rows"
OnlyRow(v) ==
    IF v.t = "list" THEN v.items[1] ELSE v.f[K_rows].items[1]
HasOneRow(v) ==
    \/ v.t = "list" /\ Len(v.items) = 1
    \/ IsDict(v) /\ K_rows \in DOMAIN v.f /\ v.f[K_rows].t = "list" /\ Len(v.f[K_rows].items) = 1

\* a completed run of extract_voting_record_csv.py over a directory that
\* holds only bd._mtg._01.02.25.pdf, whose text was extracted and whose
\* request was answered with one such row
EndToEndRun ==
    /\ script = "csv"
    /\ pc = "done"
    /\ dir = {Name_bd_mtg_01_02_25}
    /\ Len(log) = 1
    /\ Len(log[1].apis) = 1
    /\ log[1].apis[1].kind = "ok"
    /\ ResponseJson("csv", log[1].apis[1].lines).ok
    /\ HasOneRow(ResponseJson("csv", log[1].apis[1].lines).v)
    /\ UnanimousRow(OnlyRow(ResponseJson("csv", log[1].apis[1].lines).v))

\* C11: a run of extract_voting_record_csv.py over a directory holding only
\* the text-extractable bd._mtg._01.02.25.pdf, answered with one well-formed
\* ALL AYES row, ends with status 0 and leaves in each CSV file exactly one
\* data row with the 12 columns, whose date is 2025-01-02, whose vote_result
\* is ALL AYES and in which every trustee column the row gave is YES.
C11_EndToEnd ==
    EndToEndRun =>
        /\ exit_code = 0
        /\ \A f \in DOMAIN out_files :
              /\ out_files[f].header = CSV_HEADERS
              /\ Len(out_files[f].records) = 1
              /\ DOMAIN out_files[f].records[1] = HeaderSet
              /\ out_files[f].records[1][H_date] = StrIsoHint
              /\ out_files[f].records[1][H_vote_result] = StrAllAyes
              /\ \A h \in TrusteeColumns :
                    h \in DOMAIN OnlyRow(ResponseJson("csv", log[1].apis[1].lines).v).f
                        => out_files[f].records[1][h] = StrYes

\* such a run whose row left the date to the file name
C11_Witness ==
    /\ EndToEndRun
    /\ H_date \notin DOMAIN OnlyRow(ResponseJson("csv", log[1].apis[1].lines).v).f
    /\ log[1].date = StrIsoHint
    /\ out_files["OUT_CSV"].records[1][H_mayor_rossi] = StrYes


(***************************************************************************)
(* process_meeting_minutes.py: the two passes.                             *)
(***************************************************************************)
\* the step in which extract_chunked builds final_data from the two passes
MergeStep == script = "pmm" /\ pc = "pass2" /\ pc' = "save"

\* the object pass 2 answered with, read off the response of the step
DetailOf(apis) == ParseResponse(apis[Len(apis)].lines).v

\* C12: the object extract_chunked returns has exactly the keys of the two
\* passes' objects and "filename"; a key of the second pass carries the
\* second pass's value, a key of the first pass only carries the first
\* pass's value, and "filename" when neither has it is <stem>.json.
C12_ShallowMerge ==
    [][MergeStep =>
        /\ IsDict(rows) /\ IsDict(DetailOf(resp')) /\ IsDict(rows')
        /\ DOMAIN rows'.f = DOMAIN rows.f \cup DOMAIN DetailOf(resp').f \cup {K_filename}
        /\ \A k \in DOMAIN DetailOf(resp').f : rows'.f[k] = DetailOf(resp').f[k]
        /\ \A k \in DOMAIN rows.f \ DOMAIN DetailOf(resp').f : rows'.f[k] = rows.f[k]
        /\ K_filename \notin DOMAIN rows.f \cup DOMAIN DetailOf(resp').f
              => rows'.f[K_filename] = JStr(Stem(filename) \o ExtJson)]_vars

\* final_data of two passes that share the key "k": the first pass's "a",
\* the second pass's "b", and the second pass's value under "k"
C12_Witness ==
    /\ script = "pmm"
    /\ pc = "save"
    /\ Len(resp) = 2
    /\ IsDict(rows)
    /\ {K_a, K_b, K_k} \subseteq DOMAIN rows.f
    /\ rows.f[K_a] = Obj_first.f[K_a]
    /\ rows.f[K_k] = Obj_second.f[K_k]
    /\ Obj_first.f[K_k] # Obj_second.f[K_k]


(***************************************************************************)
(* The minutes conventions of extract_voting_record_csv.py.                *)
(***************************************************************************)
\* the name holds the word w, each letter in either case
HasAnyCase(n, w) ==
    \E i \in 1..(Len(n) - Len(w) + 1) :
        \A j \in 1..Len(w) : LowerChar(n[i + j - 1]) = w[j]

\* the name looks like minutes: no "draft", and one of the conventions
LooksLikeMinutes(n) ==
    /\ ~HasAnyCase(n, StrDraft)
    /\ \/ HasAnyCase(n, StrMinutes)
       \/ MatchBdMtg(n)
       \/ MatchMtgMinutes(n)
       \/ HasAnyCase(n, StrSpecialMtg)
       \/ /\ HasAnyCase(n, StrMtg)
          /\ ~HasAnyCase(n, StrAgenda)
          /\ ~HasAnyCase(n, StrAttachment)
          /\ ~HasAnyCase(n, StrAbstract)

\* C13: without a limit, get_minute_pdfs of extract_voting_record_csv.py
\* returns only PDF names of the directory; with the all flag off it returns
\* a PDF name exactly when the name has no "draft" and has "minutes", or is
\* bd._mtg._MM.DD.YY.pdf, or is M.DD.YY_mtg_minutes.pdf, or has
\* "special_mtg", or has "mtg" and none of "agenda", "attachment",
\* "abstract", in any letter case; with the all flag on it returns a PDF
\* name exactly when the name has no "draft".
C13_MinutesOnly ==
    (script = "csv" /\ pc = "loc_out" /\ dir_exists /\ ~limit.given) =>
        /\ \A i \in 1..Len(files) : files[i] \in dir /\ IsPdf(files[i])
        /\ \A n \in dir :
              IsPdf(n) =>
                  ((\E i \in 1..Len(files) : files[i] = n)
                      <=> IF include_all THEN ~HasAnyCase(n, StrDraft) ELSE LooksLikeMinutes(n))

\* a meeting agenda is left out and a bd._mtg. name of the same directory
\* is returned, the all flag off
C13_Witness ==
    /\ script = "csv"
    /\ pc = "loc_out"
    /\ ~include_all
    /\ ~limit.given
    /\ (StrMtg \o <<"_">> \o StrAgenda \o ExtPdf) \in dir
    /\ files = <<StrBdMtg \o <<"0","1",".","0","2",".","2","5">> \o ExtPdf>>


(***************************************************************************)
(* Requests of a run.                                                      *)
(***************************************************************************)
\* the requests sent so far for the document named x: those of the passes
\* through the loop that have ended, and those of the pass under way
RequestsFor(x) ==
    Cardinality({i \in 1..Len(log) : log[i].name = x /\ log[i].requests >= 1})
        + (IF filename = x THEN Requests(resp) ELSE 0)

\* the request of log entry e failed: no answer, a status that is not 2xx,
\* or a text that json.loads rejects
RequestFailed(scr, e) ==
    /\ e.requests = 1
    /\ \/ e.apis[1].kind \in {"neterr", "http"}
       \/ e.apis[1].kind = "ok" /\ ~ResponseJson(scr, e.apis[1].lines).ok

\* C14: in a run of extract_voting_record_csv.py or scan_trustees_votes.py no
\* pass through the loop sends more than one request, at most one request
\* is ever sent for a document, and no document is taken twice, so that a
\* document whose request failed is not requested again.
C14_NoRetry ==
    script \in {"csv", "scan"} =>
        /\ Len(resp) <= 1
        /\ \A i \in 1..Len(log) : log[i].requests <= 1 /\ Len(log[i].apis) <= 1
        /\ \A i \in 1..Len(files) : RequestsFor(files[i]) <= 1
        /\ \A i, j \in 1..Len(log) : i # j => log[i].name # log[j].name
        /\ \A i \in 1..Len(log) :
              RequestFailed(script, log[i]) => filename # log[i].name

\* a finished run of two documents: the request of the first failed, the
\* second was requested and answered, two requests in all
C14_Witness ==
    /\ script \in {"csv", "scan"}
    /\ pc = "done"
    /\ Len(log) = 2
    /\ RequestFailed(script, log[1])
    /\ log[1].apis[1].kind = "neterr"
    /\ log[2].requests = 1
    /\ log[2].outcome = "added"


(***************************************************************************)
(* process_meeting_minutes.py: the confirmation.                           *)
(***************************************************************************)
\* the calls of client.messages.create made so far
RECURSIVE CallsIn(_)
CallsIn(entries) ==
    IF Len(entries) = 0 THEN 0 ELSE Len(entries[1].apis) + CallsIn(Tail(entries))
Calls == CallsIn(log) + Len(resp)

\* C15: in process_meeting_minutes.py a step calls the API or changes a file
\* of JSON_DIR only after the prompt was answered with y or Y; no call has
\* been made while the prompt is unanswered; and the step that answers
\* anything else ends the run with status 0, no call made and JSON_DIR as
\* it was.
C15_ConfirmFirst ==
    [][script = "pmm" =>
        /\ pc \in {"start", "confirm"} => Calls = 0
        /\ (Calls' > Calls \/ json_dir' # json_dir)
              => (pc \notin {"start", "confirm"} /\ Lower(answer) = <<"y">>)
        /\ (pc = "confirm" /\ Lower(answer') # <<"y">>)
              => /\ pc' = "done"
                 /\ exit_code' = 0
                 /\ Calls' = 0
                 /\ json_dir' = json_dir
                 /\ successful' = 0]_vars

\* the prompt was answered "yes": the run is over, nothing was requested,
\* and a PDF of the list still has no JSON file
C15_Witness ==
    /\ script = "pmm"
    /\ pc = "done"
    /\ answer = <<"y","e","s">>
    /\ Len(files) > 0
    /\ Calls = 0
    /\ \A i \in 1..Len(files) : Stem(files[i]) \notin DOMAIN json_dir


(***************************************************************************)
(* The tally of process_meeting_minutes.py and download_trustees_pdfs.py.  *)
(***************************************************************************)
\* the loop of the script ran to its end and the run ended normally
LoopCompleted == pc = "done" /\ Len(log) = Len(files)

\* every call made for log entry e was answered, and with a text the script
\* could parse where it parses one
DataReturned(scr, e) ==
    /\ Len(e.apis) >= 1
    /\ \A k \in 1..Len(e.apis) :
          /\ e.apis[k].kind = "ok"
          /\ scr = "pmm" => ParseResponse(e.apis[k].lines).ok

\* C16 (as stated): at the end of every completed run, of any of the
\* scripts, successful + failed is the number of documents of the work list.
C16_Original ==
    LoopCompleted => successful + failed = Len(files)

\* C16: process_meeting_minutes.py and download_trustees_pdfs.py count each
\* document they have processed exactly once, as successful or as failed, so
\* that successful + failed is the length of the work list when the loop has
\* run to its end; a document counts as successful only if every call made
\* for it returned data and the data was saved.  extract_voting_record_csv.py
\* and scan_trustees_votes.py keep no tally.
C16_Tally ==
    /\ script \in {"pmm", "dl"} =>
          /\ successful + failed = Len(log)
          /\ Len(log) = idx
          /\ successful = Cardinality({i \in 1..Len(log) : log[i].outcome = "saved"})
          /\ LoopCompleted => successful + failed = Len(files)
          /\ \A i \in 1..Len(log) :
                log[i].outcome = "saved" =>
                    /\ DataReturned(script, log[i])
                    /\ script = "pmm" => Stem(log[i].name) \in DOMAIN json_dir
    /\ script \in {"csv", "scan"} => successful = 0 /\ failed = 0

\* a finished run of process_meeting_minutes.py over two PDFs: one saved,
\* the other answered with an empty object and counted as failed
C16_Witness ==
    /\ script = "pmm"
    /\ LoopCompleted
    /\ Len(files) = 2
    /\ successful = 1
    /\ failed = 1
    /\ \E i \in 1..2 : log[i].outcome = "nodata"


(***************************************************************************)
(* Documents with too little text.                                         *)
(***************************************************************************)
\* the text extracted for log entry e has fewer stripped characters than
\* the script asks for: 50 in extract_voting_record_csv.py, 100 in
\* scan_trustees_votes.py
TextTooShort(scr, e) ==
    e.n >= 0 /\ e.n < (IF scr = "csv" THEN 50 ELSE 100)

\* C17: in extract_voting_record_csv.py and scan_trustees_votes.py, the pass
\* through the loop for a document whose extracted text is too short ends
\* with no request sent and no record added, leaves the accumulated records
\* as they are, and goes on to the next document without ending the process.
C17_ShortTextSkipped ==
    [][(script \in {"csv", "scan"} /\ Len(log') = Len(log) + 1
            /\ TextTooShort(script, log'[Len(log')]))
        => /\ log'[Len(log')].apis = <<>>
           /\ log'[Len(log')].requests = 0
           /\ log'[Len(log')].added = 0
           /\ log'[Len(log')].outcome = "skipped"
           /\ all_rows' = all_rows
           /\ idx' = idx + 1
           /\ pc' = "loop"
           /\ exit_code' = -1]_vars

\* a finished run of two documents: the first had one character less than
\* the script asks for and was skipped, the second gave records
C17_Witness ==
    /\ script \in {"csv", "scan"}
    /\ pc = "done"
    /\ Len(log) = 2
    /\ log[1].n = (IF script = "csv" THEN 49 ELSE 99)
    /\ log[1].outcome = "skipped"
    /\ log[2].requests = 1
    /\ log[2].added > 0
    /\ Len(all_rows) = log[2].added


(***************************************************************************)
(* The date hint as a fallback.                                            *)
(***************************************************************************)
\* C18 as stated: a dict row whose "date" key is absent or null is appended
\* with the date hint as its date; a row that carries a date string keeps it
\* (with the surrounding whitespace removed, as every field).
C18_Original ==
    OneDictNormalized =>
        LET r == rows.items[1].f
            out == all_rows[1]
        IN  /\ (H_date \notin DOMAIN r \/ r[H_date].t = "null")
                  => out[H_date] = date_hint
            /\ (H_date \in DOMAIN r /\ r[H_date].t = "str")
                  => IsTrimOf(out[H_date], r[H_date].s)

\* what line 316 does: the hint is used when and only when the key is absent;
\* a key present with null gives an empty date
C18_AbsentKeyOnly ==
    OneDictNormalized =>
        LET r == rows.items[1].f
            out == all_rows[1]
        IN  /\ H_date \notin DOMAIN r => out[H_date] = date_hint
            /\ (H_date \in DOMAIN r /\ r[H_date].t = "null") => out[H_date] = <<>>
            /\ (H_date \in DOMAIN r /\ r[H_date].t = "str")
                  => IsTrimOf(out[H_date], r[H_date].s)


(***************************************************************************)
(* Entries of the returned list that are not dicts.                        *)
(***************************************************************************)
\* the loop of main ran over a returned list
ListNormalized == pc \in {"norm_out", "norm_raised"} /\ rows.t = "list"

\* the dict entries of the returned list, in the order of the list
DictEntries == SelectSeq(rows.items, IsDict)

\* C19: for a list returned by the LLM client the loop raises no error and
\* appends one row per dict entry, in the order of the list, each the
\* normalization of its entry; the other entries add nothing.
C19_NonDictDropped ==
    ListNormalized =>
        /\ pc = "norm_out"
        /\ Len(all_rows) = Len(DictEntries)
        /\ \A k \in 1..Len(DictEntries) :
              all_rows[k] = NormalizeRow(DictEntries[k], date_hint)

\* a dict, a string, then another dict: two rows, the first from the first
\* dict and the second from the dict after the string
C19_Witness ==
    /\ ListNormalized
    /\ Len(rows.items) = 3
    /\ IsDict(rows.items[1]) /\ ~IsDict(rows.items[2]) /\ IsDict(rows.items[3])
    /\ rows.items[1] # rows.items[3]
    /\ Len(all_rows) = 2
    /\ all_rows[1] = NormalizeRow(rows.items[1], date_hint)
    /\ all_rows[2] = NormalizeRow(rows.items[3], date_hint)
    /\ all_rows[1] # all_rows[2]


(***************************************************************************)
(* process_meeting_minutes.py: one pass or two.                            *)
(***************************************************************************)
\* the calls of client.messages.create made for the document of log entry e
\* follow the dispatch of extract_meeting_data: one call up to 4 pages;
\* above, a first call and a second one exactly when the first response
\* parsed; a call that failed leaves nothing saved
DispatchOf(e) ==
    /\ e.n <= 4 => Len(e.apis) = 1
    /\ e.n > 4 =>
          /\ Len(e.apis) \in {1, 2}
          /\ Len(e.apis) = 2 <=> ~Extract(e.apis[1]).raised
    /\ (\E k \in 1..Len(e.apis) : Extract(e.apis[k]).raised)
          => (e.outcome = "error" /\ e.added = 0)

\* the run ended inside extract_meeting_data, on the document in pdf
EndedInDocument == script = "pmm" /\ pc = "crashed" /\ filename # <<>>

\* C20 as stated: a PDF of at most 4 pages, a page count of 0 reported for an
\* unreadable PDF included, gets exactly one request; a longer one gets the
\* second request only after the first response parsed; a failed pass leaves
\* nothing saved.
C20_Original ==
    script = "pmm" =>
        /\ \A i \in 1..Len(log) : DispatchOf(log[i])
        /\ (EndedInDocument /\ get_pdf_page_count(pdf) <= 4) => Len(resp) = 1

\* what holds of the code: the dispatch is as stated for every document
\* extract_meeting_data returned from; a PDF that open() refuses is counted as
\* 0 pages and ends the run before any request
C20_ReturnedDocuments ==
    script = "pmm" =>
        /\ \A i \in 1..Len(log) : DispatchOf(log[i])
        /\ EndedInDocument => (get_pdf_page_count(pdf) = 0 /\ resp = <<>>)


(***************************************************************************)
(* process_meeting_minutes.py: PDFs that already have their JSON file.     *)
(***************************************************************************)
\* the JSON file of stem s is one that a previous run left behind: in the
\* first run these are the JSON files that existed when the run started
LeftBehind(s) == s \in DOMAIN json_dir /\ json_dir[s] = OldData

\* the names the run has taken up: its work list and the document in hand
TakenUp == {files[i] : i \in 1..Len(files)} \cup {log[i].name : i \in 1..Len(log)}
               \cup (IF filename = <<>> THEN {} ELSE {filename})

\* C21: in process_meeting_minutes.py a PDF whose <stem>.json exists when the
\* run starts is never in the work list, so no request is made for it, and
\* no step of the run rewrites or removes that JSON file; a second run started
\* after a run in which every document of the work list was saved takes up no
\* document, makes no request and leaves every JSON file as it is.
C21_ProcessedLeftAlone ==
    /\ [](script = "pmm" => \A n \in TakenUp : ~LeftBehind(Stem(n)))
    /\ [][script = "pmm" =>
             \A s \in DOMAIN json_dir : LeftBehind(s) =>
                 (s \in DOMAIN json_dir' /\ json_dir'[s] = OldData)]_vars
    /\ []((script = "pmm" /\ run = 2) =>
             (files = <<>> /\ log = <<>> /\ resp = <<>> /\ filename = <<>>
                 /\ pc \in {"start", "done", "crashed"}))
    /\ [][(script = "pmm" /\ run = 2) => json_dir' = json_dir]_vars

\* the second run has returned; the first one found the JSON file of one PDF
\* and saved the JSON file of the other
C21_Witness ==
    /\ script = "pmm"
    /\ run = 2
    /\ pc = "done"
    /\ exit_code = 0
    /\ LeftBehind(Stem(Name_special_mtg))
    /\ Stem(Name_bd_mtg_03_15_24) \in DOMAIN json_dir
    /\ ~LeftBehind(Stem(Name_bd_mtg_03_15_24))
    /\ {Name_special_mtg, Name_bd_mtg_03_15_24} \subseteq dir


(***************************************************************************)
(* load_env of extract_voting_record_csv.py and scan_trustees_votes.py     *)
(* (the same code in both).  The file is held as the lines that            *)
(* read_text().splitlines() gives.                                         *)
(***************************************************************************)
\* str.strip(c) for one character c
RECURSIVE StripOf(_, _)
StripOf(s, c) ==
    IF Len(s) > 0 /\ s[1] = c THEN StripOf(Tail(s), c)
    ELSE IF Len(s) > 0 /\ s[Len(s)] = c THEN StripOf(SubSeq(s, 1, Len(s) - 1), c)
    ELSE s

\* "=" in line
HasEquals(s) == \E i \in 1..Len(s) : s[i] = "="

\* position of the first "="
FirstEquals(s) == CHOOSE i \in 1..Len(s) : s[i] = "=" /\ \A j \in 1..(i - 1) : s[j] # "="

\* line = line.strip(); if line and not line.startswith("#") and "=" in line
EnvLineUsed(line) ==
    LET l == StripChars(line)
    IN  Len(l) > 0 /\ l[1] # "#" /\ HasEquals(l)

\* k, v = line.split("=", 1); the name is k.strip()
EnvKey(line) ==
    LET l == StripChars(line)
    IN  StripChars(SubSeq(l, 1, FirstEquals(l) - 1))

\* v = v.strip().strip('"').strip("'")
EnvValue(line) ==
    LET l == StripChars(line)
    IN  StripOf(StripOf(StripChars(SubSeq(l, FirstEquals(l) + 1, Len(l))), "\""), "'")

\* os.environ.setdefault(k, v): a name already set is left alone; putenv
\* refuses the empty name with OSError
EnvSetDefault(env, k, v) ==
    IF k \in DOMAIN env THEN [raised |-> FALSE, env |-> env]
    ELSE IF k = <<>> THEN [raised |-> TRUE, env |-> env]
    ELSE [raised |-> FALSE,
          env |-> [x \in (DOMAIN env) \cup {k} |-> IF x = k THEN v ELSE env[x]]]

\* the loop of load_env over the lines: raised = setdefault raised, env =
\* os.environ when the loop ended
RECURSIVE load_env(_, _)
load_env(lines, env) ==
    IF Len(lines) = 0 THEN [raised |-> FALSE, env |-> env]
    ELSE IF ~EnvLineUsed(lines[1]) THEN load_env(Tail(lines), env)
    ELSE LET r == EnvSetDefault(env, EnvKey(lines[1]), EnvValue(lines[1]))
         IN  IF r.raised THEN r ELSE load_env(Tail(lines), r.env)

(***************************************************************************)
(* load_env under check: one file, one environment, one call.              *)
(***************************************************************************)
MaxEnvLines == 3     \* lines of a generated .env.local

Line_A1 == <<"A","=","1">>
Line_A2 == <<"A","=","2">>
Line_B_double == <<"B","=","\"","x","\"">>
Line_B_spaced == <<" ","B"," ","="," ","'","y"," ","'"," ">>
Line_C_nested == <<"C","=","\"","'","z","'","\"">>
Line_C_single == <<"C","=","'","\"","z","\"","'">>
Line_comment == <<"#","A","=","9">>
Line_blank == <<" ">>
Line_no_equals == <<"A","B">>
Line_no_name == <<"=","x">>

EnvLines ==
    {Line_A1, Line_A2, Line_B_double, Line_B_spaced, Line_C_nested, Line_C_single,
     Line_comment,
     Line_blank, Line_no_equals, Line_no_name}

EnvFiles ==
    {[exists |-> FALSE, lines |-> <<>>]}
        \cup {[exists |-> TRUE, lines |-> ls] : ls \in SeqsUpTo(EnvLines, MaxEnvLines)}

\* the environment the process starts with
Environs ==
    {<<>>,
     [k \in {<<"A">>} |-> <<"0">>],
     [k \in {<<"A">>} |-> <<>>],
     [k \in {<<"B">>, <<"P","A","T","H">>} |-> <<"0">>]}

EnvInit ==
    /\ script \in {"csv", "scan"}
    /\ pc = "env_in"
    /\ env_file \in EnvFiles
    /\ environ \in Environs
    /\ DateIdle
    /\ LocIdle
    /\ TextIdle
    /\ NormIdle
    /\ RunIdle

\* env_path.exists() is false: load_env does nothing
LoadEnvNoFile ==
    /\ pc = "env_in"
    /\ ~env_file.exists
    /\ pc' = "env_out"
    /\ UNCHANGED <<script, envVars, dateVars, locVars, textVars, normVars, runVars, pmmVars>>

\* the loop ran over every line
LoadEnvReturns ==
    /\ pc = "env_in"
    /\ env_file.exists
    /\ ~load_env(env_file.lines, environ).raised
    /\ environ' = load_env(env_file.lines, environ).env
    /\ pc' = "env_out"
    /\ UNCHANGED <<script, env_file, dateVars, locVars, textVars, normVars, runVars, pmmVars>>

\* os.environ.setdefault raised: nothing catches it, the lines after the
\* one that raised are not read
LoadEnvRaises ==
    /\ pc = "env_in"
    /\ env_file.exists
    /\ load_env(env_file.lines, environ).raised
    /\ environ' = load_env(env_file.lines, environ).env
    /\ pc' = "env_raised"
    /\ UNCHANGED <<script, env_file, dateVars, locVars, textVars, normVars, runVars, pmmVars>>

EnvNext == LoadEnvNoFile \/ LoadEnvReturns \/ LoadEnvRaises

SpecEnv == EnvInit /\ [][EnvNext]_vars

(***************************************************************************)
(* Properties of load_env.                                                 *)
(***************************************************************************)
\* the step in which load_env runs
LoadEnvStep == pc = "env_in" /\ pc' # "env_in"

\* the lines of the file that have the form NAME=VALUE: not blank, not a
\* comment, with an "="
AssignIndexes == {i \in 1..Len(env_file.lines) : EnvLineUsed(env_file.lines[i])}

\* the text after the first "=" of a line, without the whitespace around it
RawValue(line) ==
    LET l == StripChars(line)
    IN  StripChars(SubSeq(l, FirstEquals(l) + 1, Len(l)))

\* out is raw with quote characters, and nothing else, removed from its two
\* ends; a pair of the same quote around raw is removed
QuotesStripped(out, raw) ==
    \E i \in 0..Len(raw) : \E j \in i..Len(raw) :
        /\ out = SubSeq(raw, i + 1, j)
        /\ \A k \in (1..i) \cup ((j + 1)..Len(raw)) : raw[k] \in {"\"", "'"}
        /\ (Len(raw) >= 2 /\ raw[1] = raw[Len(raw)] /\ raw[1] \in {"\"", "'"})
              => (i >= 1 /\ j <= Len(raw) - 1)

\* every variable that was set keeps its value
KeepsExisting == \A k \in DOMAIN environ : k \in DOMAIN environ' /\ environ'[k] = environ[k]

\* the variable named by line i, when it was not set, has the value of the
\* first NAME=VALUE line that names it, without the quotes around it
TakesFirstValue(i) ==
    LET k == EnvKey(env_file.lines[i])
        first == CHOOSE j \in AssignIndexes :
                    /\ EnvKey(env_file.lines[j]) = k
                    /\ \A h \in AssignIndexes : EnvKey(env_file.lines[h]) = k => j <= h
    IN  k \notin DOMAIN environ =>
            /\ k \in DOMAIN environ'
            /\ QuotesStripped(environ'[k], RawValue(env_file.lines[first]))

\* no other variable appears
NothingElse ==
    DOMAIN environ' \subseteq
        (DOMAIN environ) \cup {EnvKey(env_file.lines[i]) : i \in AssignIndexes}

\* C22 as stated: for every content of .env.local and every environment,
\* after load_env a variable that was set keeps its value, a variable that was
\* not set has the value of its first NAME=VALUE line with the quotes around
\* it removed, and the other lines change nothing.
C22_Original ==
    [][LoadEnvStep =>
          /\ KeepsExisting
          /\ \A i \in AssignIndexes : TakesFirstValue(i)
          /\ NothingElse]_vars

\* what holds of load_env for every file: no variable that was set changes
\* and no variable appears that the file does not name; load_env returns
\* exactly when no NAME=VALUE line read has an empty name, and then every
\* variable that was not set has the value of its first line
C22_NoOverride ==
    [][LoadEnvStep =>
          /\ KeepsExisting
          /\ NothingElse
          /\ pc' = "env_out" => \A i \in AssignIndexes : TakesFirstValue(i)
          /\ pc' = "env_raised" <=>
                \E i \in AssignIndexes : EnvKey(env_file.lines[i]) = <<>>]_vars

=============================================================================
